---- MODULE Spec2Model ----
(***************************************************************************)
(* Inventory analytics engine (src/src/services/analytics.ts) and its data *)
(* store client (src/src/services/database.ts).                            *)
(*                                                                         *)
(* Numbers.  The code computes in IEEE doubles; the model computes the     *)
(* same quantities exactly, in integers and ratios of integers:            *)
(*   - a service level is in thousandths (950 is 0.95);                    *)
(*   - a z-score is in ten-thousandths (16449 is 1.6449);                  *)
(*   - a date is a number of days before today (0 is today);               *)
(*   - changePercent is a ratio [num, den].                                *)
(* Math.round(x) is floor(x + 1/2).  The policies the model draws are such *)
(* that no product current * (1 +- p/100) differs between doubles and      *)
(* exact arithmetic at a rounding tie (p = 20 has no ties, p = 50 is exact *)
(* in binary).                                                             *)
(***************************************************************************)
EXTENDS Integers, Sequences, FiniteSets, TLC

(***************************************************************************)
(* Bounds of the model.                                                    *)
(***************************************************************************)
MaxRuns == 2
MaxOpRuns == 1
MaxActiveDays == 5
MaxCurrent == 12
MaxTrx == 3
MaxProducts == 4
MaxRepeat == 20

(***************************************************************************)
(* Program constants.                                                      *)
(***************************************************************************)
\* detectUnusualTransactions: lookbackDays = 7, thresholdPercentage = 150
DefaultLookbackDays == 7
DefaultThresholdPercentage == 150
windowDays == 30
DefaultZ == 16449

None == [none |-> TRUE]

(***************************************************************************)
(* Arithmetic helpers.                                                     *)
(***************************************************************************)
Max(a, b) == IF a >= b THEN a ELSE b
Min(a, b) == IF a <= b THEN a ELSE b
Abs(a) == IF a >= 0 THEN a ELSE -a

\* Math.round(num / den) for den > 0: the nearest integer, a tie going up.
RoundDiv(num, den) == (2 * num + den) \div (2 * den)

\* a/b <= c/d for a, c >= 0 and b, d > 0, by the continued-fraction expansion
\* of both ratios, so that no product of two large numbers is formed.
RECURSIVE RatLeq(_, _, _, _)
RatLeq(a, b, c, d) ==
  LET qa == a \div b
      qc == c \div d
      ra == a % b
      rc == c % d
  IN  IF qa # qc THEN qa < qc
      ELSE IF ra = 0 THEN TRUE
      ELSE IF rc = 0 THEN FALSE
      ELSE RatLeq(d, rc, b, ra)

\* s.reduce((sum, v) => sum + v, 0) over the first n entries, and the same for
\* the squares.
RECURSIVE SumTo(_, _)
SumTo(s, n) == IF n = 0 THEN 0 ELSE SumTo(s, n - 1) + s[n]

RECURSIVE SumSqTo(_, _)
SumSqTo(s, n) == IF n = 0 THEN 0 ELSE SumSqTo(s, n - 1) + s[n] * s[n]

SeqSum(s) == SumTo(s, Len(s))
SeqSumSq(s) == SumSqTo(s, Len(s))

\* [...daily].sort((a, b) => a - b)
RECURSIVE InsertAsc(_, _)
InsertAsc(v, s) ==
  IF s = <<>> THEN <<v>>
  ELSE IF v < Head(s) THEN <<v>> \o s
  ELSE <<Head(s)>> \o InsertAsc(v, Tail(s))

RECURSIVE SortAsc(_)
SortAsc(s) == IF s = <<>> THEN <<>> ELSE InsertAsc(Head(s), SortAsc(Tail(s)))

(***************************************************************************)
(* autoAdjustSafetyStock: the statistics of one balance.                   *)
(***************************************************************************)
\* zTable, keys in thousandths, in the order Object.keys yields them.
zTableKeys == <<900, 950, 975, 990>>
zTable(k) ==
  CASE k = 900 -> 12816
    [] k = 950 -> 16449
    [] k = 975 -> 19600
    [] k = 990 -> 23263
    [] OTHER -> 0

\* reduce((prev, curr) => |curr - sl| < |prev - sl| ? curr : prev, 0.95)
RECURSIVE NearestFrom(_, _, _)
NearestFrom(keys, prev, serviceLevel) ==
  IF keys = <<>> THEN prev
  ELSE NearestFrom(Tail(keys),
                   IF Abs(Head(keys) - serviceLevel) < Abs(prev - serviceLevel)
                   THEN Head(keys) ELSE prev,
                   serviceLevel)

nearest(serviceLevel) == NearestFrom(zTableKeys, 950, serviceLevel)

\* const z = zTable[nearest] || 1.6449
ZScore(serviceLevel) ==
  IF zTable(nearest(serviceLevel)) # 0 THEN zTable(nearest(serviceLevel)) ELSE DefaultZ

\* Variant: the ceiling taken at the last sorted position (the maximum).
P95_Max(daily) ==
  IF daily = <<>> THEN 0 ELSE SortAsc(daily)[Len(daily)]

\* sorted[Math.floor(0.95 * (sorted.length - 1))] || 0
P95(daily) ==
  IF daily = <<>> THEN 0
  ELSE SortAsc(daily)[((95 * (Len(daily) - 1)) \div 100) + 1]

\* daily.map(v => Math.min(v, p95))
Clamped(daily) ==
  LET p95 == P95(daily)
  IN  [i \in 1..Len(daily) |-> Min(daily[i], p95)]

\* The daily series without the 95th-percentile clamp, for comparison.
Unclamped(daily) == daily

\* mean = sum / (n || 1) and variance = sum (v - mean)^2 / max(1, n - 1), so
\* variance = VarNum / VarDen with
VarNum(series) ==
  LET t == SeqSum(series)
  IN  Len(series) * SeqSumSq(series) - t * t
VarDen(series) == Max(1, Len(series)) * Max(1, Len(series) - 1)

\* Math.round(z * stdDaily * Math.sqrt(Math.max(1, leadTimeDays))): the largest
\* k with k - 1/2 <= z * sqrt(variance * L), that is k = 0 or
\* (2k-1)^2 * VarDen / (4 * VarNum * L) <= z^2 (z is in ten-thousandths).
RoundFits(k, varNum, varDen, z, leadTimeDays) ==
  \/ k = 0
  \/ /\ varNum > 0
     /\ RatLeq((2 * k - 1) * (2 * k - 1) * varDen,
               4 * varNum * Max(1, leadTimeDays),
               z * z, 10000 * 10000)

RECURSIVE RoundSearch(_, _, _, _, _)
RoundSearch(k, varNum, varDen, z, leadTimeDays) ==
  IF RoundFits(k + 1, varNum, varDen, z, leadTimeDays)
  THEN RoundSearch(k + 1, varNum, varDen, z, leadTimeDays)
  ELSE k

RoundZSigmaLT(series, z, leadTimeDays) ==
  LET varNum == VarNum(series)
      varDen == VarDen(series)
  IN  RoundSearch(0, varNum, varDen, z, leadTimeDays)

\* Variant: the cap bounds decreases only.
ApplyCap_DownOnly(recommended, current, maxChangePercent) ==
  IF maxChangePercent > 0
  THEN Max(recommended, RoundDiv(current * (100 - maxChangePercent), 100))
  ELSE recommended

\* Variant: the cap bounds increases only.
ApplyCap_UpOnly(recommended, current, maxChangePercent) ==
  IF maxChangePercent > 0
  THEN Min(recommended, RoundDiv(current * (100 + maxChangePercent), 100))
  ELSE recommended

\* Apply change cap relative to current.
ApplyCap(recommended, current, maxChangePercent) ==
  IF maxChangePercent > 0
  THEN LET maxUp == RoundDiv(current * (100 + maxChangePercent), 100)
           maxDown == RoundDiv(current * (100 - maxChangePercent), 100)
       IN  Max(Min(recommended, maxUp), maxDown)
  ELSE recommended

\* Round to pack if provided (roundToPack = 0 stands for null).
ApplyPack(recommended, roundToPack) ==
  IF roundToPack > 0
  THEN Max(1, RoundDiv(recommended, roundToPack)) * roundToPack
  ELSE recommended

\* Variant: the statistic is not floored at minSafetyStock.
RecommendFromSeries_NoFloor(series, current, pol) ==
  ApplyPack(
    ApplyCap(RoundZSigmaLT(series, ZScore(pol.serviceLevel), pol.leadTimeDays),
             current, pol.maxChangePercent),
    pol.roundToPack)

\* The recommendation from the series the statistics are taken of.
RecommendFromSeries(series, current, pol) ==
  ApplyPack(
    ApplyCap(Max(pol.minSafetyStock,
                 RoundZSigmaLT(series, ZScore(pol.serviceLevel), pol.leadTimeDays)),
             current, pol.maxChangePercent),
    pol.roundToPack)

\* The body of the loop over targetBalances, up to the comparison with current.
Recommended(daily, current, pol) ==
  RecommendFromSeries(Clamped(daily), current, pol)

\* The same computation on the series as it is, without the clamp.
RecommendedNoClamp(daily, current, pol) ==
  RecommendFromSeries(Unclamped(daily), current, pol)

(***************************************************************************)
(* The data store and the processes that use it.                           *)
(***************************************************************************)
VARIABLES
  balances,      \* data store: the inventory balances, in the order the API lists them
  transactions,  \* data store: the inventory transactions
  products,      \* data store: the products
  warehouses,    \* data store: the warehouses
  purchaseOrderItems, \* data store: the purchase-order items
  policy,        \* the safety-stock policy the invocations are given
  pc,            \* autoAdjustSafetyStock: where the invocation stands
  warehouseId,   \* autoAdjustSafetyStock: its argument
  reads,         \* autoAdjustSafetyStock: the state of each bulk read
  fetched,       \* autoAdjustSafetyStock: what each completed read returned
  idx,           \* autoAdjustSafetyStock: position of the loop in targetBalances
  changes,       \* autoAdjustSafetyStock: the change records pushed so far
  inflight,      \* PATCH requests sent and not yet answered
  result,        \* autoAdjustSafetyStock: the response, once returned
  runsLeft,      \* number of invocations the caller may still start
  events,        \* history: the writes of the current invocation, in order
  runLog,        \* history: one entry per finished invocation
  opPc,          \* read-only operation: where the invocation stands
  opName,        \* read-only operation: which one
  opReads,       \* read-only operation: the state of each read it issued
  opResult,      \* read-only operation: what it returned
  opRunsLeft,    \* number of read-only invocations the caller may still start
  priceVarianceEnabled, \* process.env.PRICE_VARIANCE_ENABLED === '1'
  recIn,         \* inputs of one evaluation of the recommendation
  recOut,        \* its outputs
  opFetched,     \* read-only operation: what each completed read returned
  callIn,        \* inputs of one evaluation of a read-only computation
  callOut,       \* its outputs
  request,       \* cron handler: the request and the configured CRON_SECRET
  response,      \* cron handler: the response, once sent
  jobPc,         \* runDailySafetyStockAndEmail: where the invocation stands
  jobOptions,    \* runDailySafetyStockAndEmail: options.warehouses
  targetWarehouses, \* runDailySafetyStockAndEmail: the warehouses to adjust
  jobIdx,        \* runDailySafetyStockAndEmail: position of the loop
  adjustments,   \* runDailySafetyStockAndEmail: the results pushed so far
  report         \* runDailySafetyStockAndEmail: the report, once returned

storeVars == <<balances, transactions, products, warehouses, purchaseOrderItems>>
adjustVars == <<pc, warehouseId, reads, fetched, idx, changes, inflight, result,
                runsLeft, events, runLog>>
opVars == <<opPc, opName, opReads, opResult, opRunsLeft, opFetched>>
recVars == <<recIn, recOut, callIn, callOut>>
jobVars == <<request, response, jobPc, jobOptions, targetWarehouses, jobIdx, adjustments,
            report>>
vars == <<balances, transactions, products, warehouses, purchaseOrderItems, policy, pc,
          warehouseId,
          reads, fetched, idx, changes, inflight, result, runsLeft, events, runLog,
          opPc, opName, opReads, opResult, opRunsLeft, priceVarianceEnabled,
          recIn, recOut, opFetched, callIn, callOut,
          request, response, jobPc, jobOptions, targetWarehouses, jobIdx, adjustments,
          report>>

(***************************************************************************)
(* Contents of the data store.                                             *)
(***************************************************************************)
WarehouseIds == {"W1", "W2"}

InitialWarehouses ==
  << [warehouseId |-> "W1", name |-> "Main", isActive |-> TRUE],
     [warehouseId |-> "W2", name |-> "Annex", isActive |-> TRUE] >>

InitialProducts ==
  << [productId |-> "P1", name |-> "Resin", category |-> "Raw Material", isActive |-> TRUE],
     [productId |-> "P2", name |-> "Carton", category |-> "Packaging", isActive |-> TRUE] >>

POItem(p, unitCost, createdAt) ==
  [productId |-> p, unitCost |-> unitCost, createdAt |-> createdAt]

\* Three purchases of P1 in the last week at 14 and three in the month before
\* at 10 (40% dearer), one purchase of P2.
InitialPurchaseOrderItems ==
  << POItem("P1", 14, 1), POItem("P1", 14, 2), POItem("P2", 4, 3), POItem("P1", 14, 5),
     POItem("P1", 10, 10), POItem("P1", 10, 20), POItem("P1", 10, 30) >>

Balance(w, p, onHand, safety) ==
  [warehouseId |-> w, productId |-> p, qtyOnHand |-> onHand, qtyReserved |-> 1,
   safetyStock |-> safety, reorderPoint |-> 6]

\* A transaction with a reference of its own kind (sales order for an issue,
\* purchase order for a receipt) that no other transaction shares.
Trx(day, w, p, type, qty) ==
  [trxDate |-> day, warehouseId |-> w, productId |-> p, trxType |-> type,
   qty |-> qty, signedQty |-> IF type = "ISSUE" THEN -qty ELSE qty,
   refType |-> IF type = "ISSUE" THEN "SO" ELSE "PO",
   refId |-> <<day, w, p, qty>>]

\* A transaction entered against a given reference.
TrxRef(day, w, p, type, qty, refId) == [Trx(day, w, p, type, qty) EXCEPT !.refId = refId]

\* A ledger in which product P1 of warehouse W1 was issued on `active` days of
\* the window (twice on the first of them), P2 of W1 on one day only, P1 of W2
\* on four days; with a receipt and an issue older than the window.
Ledger(active) ==
  [d \in 1..active |-> Trx(3 * d, "W1", "P1", "ISSUE", 10 * (1 + (d % 2)))]
  \o (IF active > 0 THEN <<Trx(3, "W1", "P1", "ISSUE", 5)>> ELSE <<>>)
  \o << Trx(5, "W1", "P2", "ISSUE", 100),
        Trx(0, "W2", "P1", "ISSUE", 4),
        Trx(1, "W2", "P1", "ISSUE", 8),
        Trx(2, "W2", "P1", "ISSUE", 4),
        Trx(29, "W2", "P1", "ISSUE", 6),
        Trx(2, "W1", "P1", "RECEIPT", 500),
        Trx(windowDays, "W1", "P2", "ISSUE", 50) >>

StockValues == {0, 10, 100}

\* The defaults of the policy's destructuring.
DefaultPolicy ==
  [serviceLevel |-> 950, leadTimeDays |-> 7, maxChangePercent |-> 20,
   roundToPack |-> 0, minSafetyStock |-> 0]

Policies ==
  [serviceLevel : {950}, leadTimeDays : {7}, maxChangePercent : {0, 20},
   roundToPack : {0, 4}, minSafetyStock : {0, 5}]

(***************************************************************************)
(* autoAdjustSafetyStock                                                   *)
(***************************************************************************)
\* The four bulk reads of the Promise.all.
ReadNames == {"transactions", "balances", "products", "warehouses"}

\* What a read returns when it completes: the collection as it is then.
StoreRead(r) ==
  CASE r = "transactions" -> transactions
    [] r = "balances" -> balances
    [] r = "products" -> products
    [] r = "warehouses" -> warehouses
    [] r = "purchaseOrderItems" -> purchaseOrderItems

\* Variant: only the transactions and the balances are awaited.
AllReadsDone_TwoOnly == reads["transactions"] = "ok" /\ reads["balances"] = "ok"

\* The await of the Promise.all resumes once every read has completed.
AllReadsDone == \A r \in ReadNames : reads[r] = "ok"

\* balances.filter(b => b.warehouseId === warehouseId)
TargetBalances(bals, w) == SelectSeq(bals, LAMBDA b : b.warehouseId = w)

\* dates.map(date => trxByKey.get(`${date}|${productId}|${warehouseId}`) || 0):
\* entry i is the ISSUE quantity of the day windowDays - i days before today.
RECURSIVE IssuedOn(_, _, _)
IssuedOn(trxs, bal, day) ==
  IF trxs = <<>> THEN 0
  ELSE (IF /\ Head(trxs).trxType = "ISSUE"
           /\ Head(trxs).trxDate = day
           /\ Head(trxs).productId = bal.productId
           /\ Head(trxs).warehouseId = bal.warehouseId
        THEN Head(trxs).qty ELSE 0)
       + IssuedOn(Tail(trxs), bal, day)

Daily(trxs, bal) == [i \in 1..windowDays |-> IssuedOn(trxs, bal, windowDays - i)]

\* const current = Number(bal.safetyStock) || 0
Current(bal) == bal.safetyStock

RecommendedFor(bal) == Recommended(Daily(fetched["transactions"], bal), Current(bal), policy)

\* Variant: every balance is written.
NeedsWrite_Always(bal) == TRUE

\* if (recommended !== current)
NeedsWrite(bal) == RecommendedFor(bal) # Current(bal)

\* Variant: the patch names the other threshold field.
UpdatePayload_WrongField(w, p, recommended) ==
  [warehouseId |-> w, productId |-> p, reorderPoint |-> recommended]

\* Variant: the patch sets both threshold fields.
UpdatePayload_BothFields(w, p, recommended) ==
  [warehouseId |-> w, productId |-> p, safetyStock |-> recommended,
   reorderPoint |-> recommended]

\* The payload of database.updateInventoryBalance(warehouseId, productId, patch).
UpdatePayload(w, p, recommended) ==
  [warehouseId |-> w, productId |-> p, safetyStock |-> recommended]

\* The store's answer to PATCH /api/inventorybalance: the balance with the
\* payload's composite key takes the payload's other fields.
StorePatch(bals, payload) ==
  [i \in 1..Len(bals) |->
     IF /\ bals[i].warehouseId = payload.warehouseId
        /\ bals[i].productId = payload.productId
     THEN [f \in DOMAIN bals[i] |->
             IF f \in DOMAIN payload THEN payload[f] ELSE bals[i][f]]
     ELSE bals[i]]

\* productMap.get(id)?.name || 'Unknown'
RECURSIVE NameOf(_, _, _)
NameOf(list, field, id) ==
  IF list = <<>> THEN "Unknown"
  ELSE IF Head(list)[field] = id THEN Head(list).name
  ELSE NameOf(Tail(list), field, id)

\* current === 0 ? 100 : ((recommended - current) / Math.max(1, current)) * 100
ChangePercent(current, recommended) ==
  IF current = 0 THEN [num |-> 100, den |-> 1]
  ELSE [num |-> (recommended - current) * 100, den |-> Max(1, current)]

ChangeRecord(bal) ==
  [productId |-> bal.productId,
   productName |-> NameOf(fetched["products"], "productId", bal.productId),
   warehouseId |-> bal.warehouseId,
   warehouseName |-> NameOf(fetched["warehouses"], "warehouseId", bal.warehouseId),
   currentSafetyStock |-> Current(bal),
   recommendedSafetyStock |-> RecommendedFor(bal),
   changePercent |-> ChangePercent(Current(bal), RecommendedFor(bal))]

\* changes.sort((a, b) => Math.abs(b.changePercent) - Math.abs(a.changePercent)):
\* a stable sort, larger |changePercent| first.
AbsLess(x, y) == Abs(x.num) * y.den < Abs(y.num) * x.den

RECURSIVE InsertChange(_, _)
InsertChange(c, s) ==
  IF s = <<>> THEN <<c>>
  ELSE IF AbsLess(Head(s).changePercent, c.changePercent) THEN <<c>> \o s
  ELSE <<Head(s)>> \o InsertChange(c, Tail(s))

\* Variant: the change records are returned in the order they were pushed.
SortChanges_Unsorted(s) == s

RECURSIVE SortChanges(_)
SortChanges(s) ==
  IF s = <<>> THEN <<>>
  ELSE InsertChange(s[Len(s)], SortChanges(SubSeq(s, 1, Len(s) - 1)))

Response(w, chg, targets) ==
  [warehouseId |-> w, appliedCount |-> Len(chg), totalCandidates |-> Len(targets),
   changes |-> SortChanges(chg)]

\* The loop from position i: the first balance at or after i that needs a write
\* (Len + 1 when there is none).
RECURSIVE NextWrite(_, _)
NextWrite(targets, i) ==
  IF i > Len(targets) THEN i
  ELSE IF NeedsWrite(targets[i]) THEN i
  ELSE NextWrite(targets, i + 1)

Targets == TargetBalances(fetched["balances"], warehouseId)

\* The synchronous stretch of the loop from position i, with change records
\* chg, history ev and requests in flight fl: it stops at the next await (a PATCH
\* is sent) or at the return.
Continue(i, chg, ev, fl) ==
  LET j == NextWrite(Targets, i)
  IN  IF j <= Len(Targets)
      THEN /\ pc' = "writing"
           /\ idx' = j
           /\ inflight' = fl \cup
                {UpdatePayload(Targets[j].warehouseId, Targets[j].productId,
                               RecommendedFor(Targets[j]))}
           /\ events' = Append(ev, [kind |-> "issue", at |-> j])
           /\ changes' = chg
           /\ UNCHANGED <<result, runLog>>
      ELSE /\ pc' = "done"
           /\ idx' = j
           /\ inflight' = fl
           /\ events' = ev
           /\ changes' = chg
           /\ result' = Response(warehouseId, chg, Targets)
           /\ runLog' = Append(runLog, [warehouseId |-> warehouseId, outcome |-> "done",
                                        appliedCount |-> Len(chg), persisted |-> Len(chg)])

\* The call: the four reads are issued together.
StartRun(w) ==
  /\ pc \in {"idle", "done", "failed"}
  /\ runsLeft > 0
  /\ pc' = "reading"
  /\ warehouseId' = w
  /\ runsLeft' = runsLeft - 1
  /\ reads' = [r \in ReadNames |-> "pending"]
  /\ fetched' = [r \in ReadNames |-> <<>>]
  /\ idx' = 0
  /\ changes' = <<>>
  /\ result' = None
  /\ events' = <<>>
  /\ UNCHANGED <<inflight, runLog, storeVars, policy, opVars, priceVarianceEnabled, recVars,
                 jobVars>>

\* One read completes.
ReadOk(r) ==
  /\ pc = "reading"
  /\ reads[r] = "pending"
  /\ reads' = [reads EXCEPT ![r] = "ok"]
  /\ fetched' = [fetched EXCEPT ![r] = StoreRead(r)]
  /\ UNCHANGED <<pc, warehouseId, idx, changes, inflight, result, runsLeft, events, runLog,
                 storeVars, policy, opVars, priceVarianceEnabled, recVars, jobVars>>

\* One read fails: the Promise.all rejects and the invocation throws; what the
\* other reads return is no longer looked at.
ReadFail(r) ==
  /\ pc = "reading"
  /\ reads[r] = "pending"
  /\ reads' = [x \in ReadNames |-> IF x = r THEN "failed" ELSE "abandoned"]
  /\ pc' = "failed"
  /\ runLog' = Append(runLog, [warehouseId |-> warehouseId, outcome |-> "failed",
                               appliedCount |-> 0, persisted |-> 0])
  /\ fetched' = [x \in ReadNames |-> <<>>]
  /\ UNCHANGED <<warehouseId, idx, changes, inflight, result, runsLeft, events,
                 storeVars, policy, opVars, priceVarianceEnabled, recVars, jobVars>>

\* All four reads are in: the loop runs up to its first write, or to the return.
Resume ==
  /\ pc = "reading"
  /\ AllReadsDone
  /\ Continue(1, changes, events, inflight)
  /\ UNCHANGED <<warehouseId, reads, fetched, runsLeft, storeVars, policy, opVars,
                 priceVarianceEnabled, recVars, jobVars>>

\* The PATCH in flight succeeds: the store is patched, the change record is
\* pushed and the loop goes on to its next write, or to the return.
WriteOk ==
  /\ pc = "writing"
  /\ \E payload \in inflight :
       /\ balances' = StorePatch(balances, payload)
       /\ Continue(idx + 1,
                   Append(changes, ChangeRecord(Targets[idx])),
                   Append(events, [kind |-> "ok", at |-> idx]),
                   inflight \ {payload})
  /\ UNCHANGED <<warehouseId, reads, fetched, runsLeft, transactions, products, warehouses,
                 purchaseOrderItems, policy, opVars, priceVarianceEnabled, recVars, jobVars>>

\* The PATCH in flight fails: updateInventoryBalance rethrows, nothing in the
\* loop catches it, and the invocation throws with the store left as it is.
WriteFail ==
  /\ pc = "writing"
  /\ \E payload \in inflight :
       /\ inflight' = inflight \ {payload}
       /\ events' = Append(events, [kind |-> "fail", at |-> idx])
  /\ pc' = "failed"
  /\ runLog' = Append(runLog, [warehouseId |-> warehouseId, outcome |-> "failed",
                               appliedCount |-> 0, persisted |-> Len(changes)])
  /\ UNCHANGED <<warehouseId, reads, fetched, idx, changes, result, runsLeft, storeVars,
                 policy, opVars, priceVarianceEnabled, recVars, jobVars>>

AdjustNext ==
  \/ \E w \in WarehouseIds : StartRun(w)
  \/ \E r \in ReadNames : ReadOk(r)
  \/ \E r \in ReadNames : ReadFail(r)
  \/ Resume
  \/ WriteOk
  \/ WriteFail

(***************************************************************************)
(* analyzeStockoutHistory                                                  *)
(***************************************************************************)
\* days: number = 90
StockoutWindowDays == 90

\* new Date(t.trxDate) >= cutoffDate, cutoffDate being `days` days before today.
InWindow(t, days) == t.trxDate <= days

\* Array.prototype.sort by ascending date, stable: the oldest transaction
\* (the largest number of days before today) comes first.
InsertByDate(t, s) ==
  LET later == {i \in 1..Len(s) : s[i].trxDate < t.trxDate}
      k == IF later = {} THEN Len(s) + 1 ELSE CHOOSE i \in later : \A j \in later : i <= j
  IN  SubSeq(s, 1, k - 1) \o <<t>> \o SubSeq(s, k, Len(s))

RECURSIVE SortByDateTo(_, _)
SortByDateTo(s, n) == IF n = 0 THEN <<>> ELSE InsertByDate(s[n], SortByDateTo(s, n - 1))

SortByDate(s) == SortByDateTo(s, Len(s))

\* The transactions of the balance's product and warehouse inside the window,
\* in chronological order.
ProductTrx(trxs, balance, days) ==
  SortByDate(SelectSeq(trxs, LAMBDA t : /\ t.productId = balance.productId
                                        /\ t.warehouseId = balance.warehouseId
                                        /\ InWindow(t, days)))

\* The locals of the simulation before its first step.
SimulationStart(balance) ==
  [runningQty |-> balance.qtyOnHand,
   stockoutDays |-> 0,
   stockoutFrequency |-> 0,
   lastStockoutDate |-> None,
   inStockout |-> (balance.qtyOnHand = 0)]

SimulationStep_NeverLeaves(st, trx) ==
  LET runningQty == st.runningQty - trx.signedQty
      enters == runningQty <= 0 /\ ~st.inStockout
  IN  [runningQty |-> runningQty,
       stockoutDays |-> st.stockoutDays + (IF runningQty <= 0 THEN 1 ELSE 0),
       stockoutFrequency |-> st.stockoutFrequency + (IF enters THEN 1 ELSE 0),
       lastStockoutDate |-> IF enters THEN trx.trxDate ELSE st.lastStockoutDate,
       inStockout |-> IF enters THEN TRUE ELSE st.inStockout]

\* One iteration of the backward loop: the transaction is reversed, the
\* two-state machine moves, the step is counted when the quantity is <= 0.
SimulationStep(st, trx) ==
  LET runningQty == st.runningQty - trx.signedQty
      enters == runningQty <= 0 /\ ~st.inStockout
      leaves == ~enters /\ runningQty > 0 /\ st.inStockout
  IN  [runningQty |-> runningQty,
       stockoutDays |-> st.stockoutDays + (IF runningQty <= 0 THEN 1 ELSE 0),
       stockoutFrequency |-> st.stockoutFrequency + (IF enters THEN 1 ELSE 0),
       lastStockoutDate |-> IF enters THEN trx.trxDate ELSE st.lastStockoutDate,
       inStockout |-> IF enters THEN TRUE ELSE IF leaves THEN FALSE ELSE st.inStockout]

\* for (let i = productTrx.length - 1; i >= 0; i--): the locals after the
\* iterations for the transactions productTrx[i..Len], latest first.
RECURSIVE Simulate(_, _, _)
Simulate(productTrx, i, balance) ==
  IF i > Len(productTrx) THEN SimulationStart(balance)
  ELSE SimulationStep(Simulate(productTrx, i + 1, balance), productTrx[i])

\* The item pushed for a balance (pushed only when its frequency is positive).
StockoutItem(trxs, balance, prods, whs, days) ==
  LET productTrx == ProductTrx(trxs, balance, days)
      st == Simulate(productTrx, 1, balance)
  IN  [productId |-> balance.productId,
       productName |-> NameOf(prods, "productId", balance.productId),
       warehouseId |-> balance.warehouseId,
       warehouseName |-> NameOf(whs, "warehouseId", balance.warehouseId),
       stockoutDays |-> st.stockoutDays,
       frequency |-> st.stockoutFrequency,
       lastStockout |-> st.lastStockoutDate,
       currentQty |-> balance.qtyOnHand,
       safetyStock |-> balance.safetyStock]

\* stockoutHistory.sort((a, b) => b.frequency - a.frequency), stable.
InsertByFrequency(x, s) ==
  LET lower == {i \in 1..Len(s) : s[i].frequency < x.frequency}
      k == IF lower = {} THEN Len(s) + 1 ELSE CHOOSE i \in lower : \A j \in lower : i <= j
  IN  SubSeq(s, 1, k - 1) \o <<x>> \o SubSeq(s, k, Len(s))

RECURSIVE SortByFrequencyTo(_, _)
SortByFrequencyTo(s, n) ==
  IF n = 0 THEN <<>> ELSE InsertByFrequency(s[n], SortByFrequencyTo(s, n - 1))

\* The items of all balances with a positive frequency, most frequent first.
AnalyzeStockoutHistory(trxs, bals, prods, whs, days) ==
  LET items == [k \in 1..Len(bals) |-> StockoutItem(trxs, bals[k], prods, whs, days)]
      kept == SelectSeq(items, LAMBDA x : x.frequency > 0)
  IN  SortByFrequencyTo(kept, Len(kept))

(***************************************************************************)
(* detectUnusualTransactions                                               *)
(*                                                                         *)
(* trxDate counts whole days before the instant of the call, so that the   *)
(* recent window (date >= cutoffDate) holds the days 0..lookbackDays and   *)
(* the baseline window (baselineCutoff <= date < cutoffDate) the days      *)
(* lookbackDays+1..2*lookbackDays.  Averages are kept as the window's sum  *)
(* over lookbackDays, changePercentage as a ratio num/den with den > 0.    *)
(***************************************************************************)
RecentTrx(trxs, lookbackDays) == SelectSeq(trxs, LAMBDA t : t.trxDate <= lookbackDays)

BaselineTrx(trxs, lookbackDays) ==
  SelectSeq(trxs, LAMBDA t : t.trxDate <= 2 * lookbackDays /\ t.trxDate > lookbackDays)

\* `${t.productId}|${t.warehouseId}|${t.trxType}`
PairOf(t) == <<t.productId, t.warehouseId, t.trxType>>

\* new Set(recentTrx.map(...)): the distinct tuples, in order of first appearance.
RECURSIVE ProductWarehousePairsTo(_, _)
ProductWarehousePairsTo(recentTrx, n) ==
  IF n = 0 THEN <<>>
  ELSE LET before == ProductWarehousePairsTo(recentTrx, n - 1)
           pair == PairOf(recentTrx[n])
       IN  IF \E i \in 1..Len(before) : before[i] = pair THEN before
           ELSE Append(before, pair)

ProductWarehousePairs(recentTrx) == ProductWarehousePairsTo(recentTrx, Len(recentTrx))

\* The transactions of a tuple in a window.
OfPair(trxList, pair) == SelectSeq(trxList, LAMBDA t : PairOf(t) = pair)

RECURSIVE QtySumTo(_, _)
QtySumTo(list, n) == IF n = 0 THEN 0 ELSE QtySumTo(list, n - 1) + list[n].qty

\* calculateAverage times lookbackDays: 0 when the tuple has no transaction.
WindowSum(trxList, pair) == LET filtered == OfPair(trxList, pair)
                            IN  QtySumTo(filtered, Len(filtered))

\* Variant: the change is measured from the recent average down to the baseline.
ChangePercentage_Reversed(recentSum, baselineSum) ==
  [num |-> (baselineSum - recentSum) * 100, den |-> baselineSum]

\* ((recentAvg - baselineAvg) / baselineAvg) * 100
ChangePercentage(recentSum, baselineSum) ==
  [num |-> (recentSum - baselineSum) * 100, den |-> baselineSum]

\* Math.abs(changePercentage) >= bound
AbsAtLeast(change, bound) == Abs(change.num) >= bound * change.den

\* Variant: the medium band is left out.
SeverityOf_NoMedium(change) ==
  IF AbsAtLeast(change, 300) THEN "critical"
  ELSE IF AbsAtLeast(change, 200) THEN "high"
  ELSE "low"

SeverityOf(change) ==
  IF AbsAtLeast(change, 300) THEN "critical"
  ELSE IF AbsAtLeast(change, 200) THEN "high"
  ELSE IF AbsAtLeast(change, 150) THEN "medium"
  ELSE "low"

\* groupByDay: the days of the list, and the quantity summed on each of them.
DaysOf(list) == {list[i].trxDate : i \in 1..Len(list)}
DailyQty(list, d) == LET onDay == SelectSeq(list, LAMBDA t : t.trxDate = d)
                     IN  QtySumTo(onDay, Len(onDay))

ActiveDays(list) == Cardinality({d \in DaysOf(list) : DailyQty(list, d) > 0})

\* Math.max(0, ...Array.from(recDaily.values()))
MaxDaily(list) ==
  LET vals == {DailyQty(list, d) : d \in DaysOf(list)} \cup {0}
  IN  CHOOSE v \in vals : \A u \in vals : u <= v

\* `${t.refType}|${t.refId}|${t.productId}|${t.trxType}`
DupKey(t) == <<t.refType, t.refId, t.productId, t.trxType>>

HasDuplicate(rec) ==
  \E i, j \in 1..Len(rec) : i # j /\ DupKey(rec[i]) = DupKey(rec[j])

\* extreme = maxRecDaily > 5 * Math.max(1, recentAvg), recentAvg being
\* recentSum / lookbackDays.
Extreme(rec, recentSum, lookbackDays) ==
  MaxDaily(rec) * lookbackDays > 5 * Max(lookbackDays, recentSum)

\* Variant: the demand-spike rule is tried before the duplicate and extreme rules.
ProbableCause_SpikeFirst(rec, base, type, change, recentSum, lookbackDays, thresholdPercentage) ==
  IF type = "ISSUE" /\ change.num > 0 THEN "demand_spike"
  ELSE IF HasDuplicate(rec) THEN "duplicate_entry"
  ELSE IF Extreme(rec, recentSum, lookbackDays) THEN "data_error"
  ELSE IF type = "RECEIPT" /\ change.num < 0 THEN "receipt_delay"
  ELSE IF /\ AbsAtLeast(change, thresholdPercentage)
          /\ ActiveDays(rec) >= 5 /\ ActiveDays(base) >= 5 THEN "process_change"
  ELSE "unknown"

\* The chain of root-cause rules: the first that matches gives the cause.
ProbableCause(rec, base, type, change, recentSum, lookbackDays, thresholdPercentage) ==
  IF HasDuplicate(rec) THEN "duplicate_entry"
  ELSE IF Extreme(rec, recentSum, lookbackDays) THEN "data_error"
  ELSE IF type = "ISSUE" /\ change.num > 0 THEN "demand_spike"
  ELSE IF type = "RECEIPT" /\ change.num < 0 THEN "receipt_delay"
  ELSE IF /\ AbsAtLeast(change, thresholdPercentage)
          /\ ActiveDays(rec) >= 5 /\ ActiveDays(base) >= 5 THEN "process_change"
  ELSE "unknown"

\* The anomaly pushed for a tuple.
UnusualAnomaly(pair, recentTrx, baselineTrx, prods, whs, lookbackDays, thresholdPercentage) ==
  LET recentSum == WindowSum(recentTrx, pair)
      baselineSum == WindowSum(baselineTrx, pair)
      change == ChangePercentage(recentSum, baselineSum)
  IN  [type |-> "unusual_transaction",
       productId |-> pair[1],
       productName |-> NameOf(prods, "productId", pair[1]),
       warehouseId |-> pair[2],
       warehouseName |-> NameOf(whs, "warehouseId", pair[2]),
       trxType |-> pair[3],
       severity |-> SeverityOf(change),
       changePercentage |-> change,
       baselineValue |-> [num |-> baselineSum, den |-> lookbackDays],
       currentValue |-> [num |-> recentSum, den |-> lookbackDays],
       probableCause |-> ProbableCause(OfPair(recentTrx, pair), OfPair(baselineTrx, pair),
                                       pair[3], change, recentSum, lookbackDays,
                                       thresholdPercentage)]

\* if (baselineAvg === 0) continue; if (Math.abs(changePercentage) >= thresholdPercentage)
Emits(pair, recentTrx, baselineTrx, thresholdPercentage) ==
  LET recentSum == WindowSum(recentTrx, pair)
      baselineSum == WindowSum(baselineTrx, pair)
  IN  /\ baselineSum # 0
      /\ AbsAtLeast(ChangePercentage(recentSum, baselineSum), thresholdPercentage)

SeverityOrder(sev) ==
  CASE sev = "critical" -> 0 [] sev = "high" -> 1 [] sev = "medium" -> 2 [] sev = "low" -> 3

\* anomalies.sort by severityOrder, stable.
InsertBySeverity(x, s) ==
  LET after == {i \in 1..Len(s) : SeverityOrder(s[i].severity) > SeverityOrder(x.severity)}
      k == IF after = {} THEN Len(s) + 1 ELSE CHOOSE i \in after : \A j \in after : i <= j
  IN  SubSeq(s, 1, k - 1) \o <<x>> \o SubSeq(s, k, Len(s))

RECURSIVE SortBySeverityTo(_, _)
SortBySeverityTo(s, n) ==
  IF n = 0 THEN <<>> ELSE InsertBySeverity(s[n], SortBySeverityTo(s, n - 1))

DetectUnusualTransactions(trxs, prods, whs, lookbackDays, thresholdPercentage) ==
  LET recentTrx == RecentTrx(trxs, lookbackDays)
      baselineTrx == BaselineTrx(trxs, lookbackDays)
      pairs == ProductWarehousePairs(recentTrx)
      emitting == SelectSeq(pairs, LAMBDA pr : Emits(pr, recentTrx, baselineTrx,
                                                     thresholdPercentage))
      anomalies == [k \in 1..Len(emitting) |->
                      UnusualAnomaly(emitting[k], recentTrx, baselineTrx, prods, whs,
                                     lookbackDays, thresholdPercentage)]
  IN  SortBySeverityTo(anomalies, Len(anomalies))

(***************************************************************************)
(* detectPriceVariance and the composition of getCriticalAlerts.           *)
(***************************************************************************)
\* recent: createdAt >= d7; prior: d37 <= createdAt < d7 (days before the call).
RecentItems(list) == SelectSeq(list, LAMBDA i : i.createdAt <= 7)
PriorItems(list) == SelectSeq(list, LAMBDA i : i.createdAt <= 37 /\ i.createdAt > 7)

RECURSIVE CostSumTo(_, _)
CostSumTo(list, n) == IF n = 0 THEN 0 ELSE CostSumTo(list, n - 1) + list[n].unitCost

\* byProduct: the products of the items, in order of first appearance.
RECURSIVE ProductsOfItemsTo(_, _)
ProductsOfItemsTo(poItems, n) ==
  IF n = 0 THEN <<>>
  ELSE LET before == ProductsOfItemsTo(poItems, n - 1)
       IN  IF \E i \in 1..Len(before) : before[i] = poItems[n].productId THEN before
           ELSE Append(before, poItems[n].productId)

\* ((recentAvg - priorAvg) / priorAvg) * 100 of the average unit costs, as a
\* ratio with a positive denominator (unit costs are not negative).
PriceChange(recent, prior) ==
  LET recentSum == CostSumTo(recent, Len(recent))
      priorSum == CostSumTo(prior, Len(prior))
  IN  [num |-> (recentSum * Len(prior) - priorSum * Len(recent)) * 100,
       den |-> priorSum * Len(recent)]

PriceSeverity(change) ==
  IF AbsAtLeast(change, 45) THEN "critical"
  ELSE IF AbsAtLeast(change, 30) THEN "high"
  ELSE IF AbsAtLeast(change, 20) THEN "medium"
  ELSE "low"

\* The product passes every `continue` of the loop.
PriceEmits(list) ==
  LET recent == RecentItems(list)
      prior == PriorItems(list)
  IN  /\ Len(recent) >= 3 /\ Len(prior) >= 3
      /\ CostSumTo(prior, Len(prior)) # 0
      /\ PriceSeverity(PriceChange(recent, prior)) # "low"

\* An absent estimatedImpact.
NoImpact == [has |-> {}, stockRiskDays |-> 0, potentialLostSalesQty |-> 0, excessQty |-> 0]

PriceAnomaly(productId, list, prods) ==
  LET recent == RecentItems(list)
      prior == PriorItems(list)
      change == PriceChange(recent, prior)
  IN  [type |-> "price_variance",
       productId |-> productId,
       productName |-> NameOf(prods, "productId", productId),
       warehouseId |-> "",
       warehouseName |-> "",
       trxType |-> "",
       severity |-> PriceSeverity(change),
       changePercentage |-> change,
       baselineValue |-> [num |-> CostSumTo(prior, Len(prior)), den |-> Len(prior)],
       currentValue |-> [num |-> CostSumTo(recent, Len(recent)), den |-> Len(recent)],
       probableCause |-> "process_change",
       estimatedImpact |-> [NoImpact EXCEPT !.has = {"notes"}]]

DetectPriceVariance(poItems, prods) ==
  LET ids == ProductsOfItemsTo(poItems, Len(poItems))
      listOf(id) == SelectSeq(poItems, LAMBDA i : i.productId = id)
      emitting == SelectSeq(ids, LAMBDA id : PriceEmits(listOf(id)))
  IN  [k \in 1..Len(emitting) |-> PriceAnomaly(emitting[k], listOf(emitting[k]), prods)]

\* An anomaly of detectUnusualTransactions as an alert: no impact yet.
UnusualAlert(a) ==
  [f \in DOMAIN a \cup {"estimatedImpact"} |->
     IF f = "estimatedImpact" THEN NoImpact ELSE a[f]]

\* The alert pushed for a stockout item with frequency >= 3.
StockoutAlert(stockout) ==
  [type |-> "stockout",
   productId |-> stockout.productId,
   productName |-> stockout.productName,
   warehouseId |-> stockout.warehouseId,
   warehouseName |-> stockout.warehouseName,
   trxType |-> "",
   severity |-> IF stockout.frequency >= 5 THEN "critical" ELSE "high",
   changePercentage |-> [num |-> 0, den |-> 1],
   baselineValue |-> [num |-> stockout.safetyStock, den |-> 1],
   currentValue |-> [num |-> stockout.currentQty, den |-> 1],
   probableCause |-> "none",
   estimatedImpact |-> NoImpact]

\* balanceMap.get(key): the last balance listed for the key, if any.
BalanceIndex(bals, a) ==
  LET hits == {i \in 1..Len(bals) : /\ bals[i].productId = a.productId
                                    /\ bals[i].warehouseId = a.warehouseId}
  IN  IF hits = {} THEN 0 ELSE CHOOSE i \in hits : \A j \in hits : j <= i

\* The enrichment of one alert with its estimated impact.
Enrich(a, bals) ==
  LET k == BalanceIndex(bals, a)
      unusual == a.type = "unusual_transaction"
      isIssueSpike == unusual /\ a.trxType = "ISSUE" /\ a.changePercentage.num > 0
      isReceiptSpike == unusual /\ a.trxType = "RECEIPT" /\ a.changePercentage.num > 0
      rate == IF unusual THEN [num |-> Max(0, a.currentValue.num), den |-> a.currentValue.den]
              ELSE [num |-> 0, den |-> 1]
      risk == k # 0 /\ isIssueSpike /\ rate.num > 0
      aboveSafety == Max(0, bals[k].qtyOnHand - bals[k].safetyStock)
      days == (aboveSafety * rate.den) \div rate.num
      excess == k # 0 /\ isReceiptSpike /\ bals[k].qtyOnHand > 3 * bals[k].safetyStock
      notes == risk \/ excess \/ a.type = "price_variance"
      has == (IF risk THEN {"stockRiskDays"} ELSE {})
               \cup (IF risk /\ days <= 7 THEN {"potentialLostSalesQty"} ELSE {})
               \cup (IF excess THEN {"excessQty"} ELSE {})
               \cup (IF notes THEN {"notes"} ELSE {})
  IN  IF ~notes THEN a
      ELSE [a EXCEPT !.estimatedImpact =
              [has |-> a.estimatedImpact.has \cup has,
               stockRiskDays |-> IF risk THEN days ELSE 0,
               potentialLostSalesQty |->
                 IF risk /\ days <= 7
                 THEN Max(0, RoundDiv(rate.num * (7 - Max(0, days)), rate.den)) ELSE 0,
               excessQty |-> IF excess THEN bals[k].qtyOnHand - 3 * bals[k].safetyStock
                             ELSE 0]]

CountSeverity(alerts, sev) ==
  Cardinality({i \in 1..Len(alerts) : alerts[i].severity = sev})

SeverityScore(sev) ==
  IF sev = "critical" THEN 3 ELSE IF sev = "high" THEN 2 ELSE IF sev = "medium" THEN 1 ELSE 0

Score_NoStockoutBonus(a) ==
  SeverityScore(a.severity)
    + (IF a.probableCause \in {"duplicate_entry", "data_error"} THEN 1 ELSE 0)
    + (IF "stockRiskDays" \in a.estimatedImpact.has /\ a.estimatedImpact.stockRiskDays <= 7
       THEN 1 ELSE 0)

Score(a) ==
  SeverityScore(a.severity)
    + (IF a.probableCause \in {"duplicate_entry", "data_error"} THEN 1 ELSE 0)
    + (IF "stockRiskDays" \in a.estimatedImpact.has /\ a.estimatedImpact.stockRiskDays <= 7
       THEN 1 ELSE 0)
    + (IF a.type = "stockout" THEN 1 ELSE 0)

\* scored.sort((x, y) => y.score - x.score): stable, highest score first; the
\* sorted list holds positions of allAlerts.
InsertByScore(sorted, i, alerts) ==
  LET before == {k \in 1..Len(sorted) : Score(alerts[sorted[k]]) >= Score(alerts[i])}
      n == Cardinality(before)
  IN  SubSeq(sorted, 1, n) \o <<i>> \o SubSeq(sorted, n + 1, Len(sorted))

RECURSIVE SortByScoreTo(_, _)
SortByScoreTo(alerts, n) ==
  IF n = 0 THEN <<>> ELSE InsertByScore(SortByScoreTo(alerts, n - 1), n, alerts)

\* scored.slice(0, 3), as positions of allAlerts.
PriorityOrder(alerts) ==
  SubSeq(SortByScoreTo(alerts, Len(alerts)), 1, Min(3, Len(alerts)))

PriorityTitle(a) ==
  IF a.type = "stockout" THEN <<"Stockout berulang", a.productName>>
  ELSE IF a.type = "price_variance" THEN <<"Perubahan biaya", a.productName>>
  ELSE <<"Anomali " \o a.trxType, a.productName>>

SuggestedActions(a) ==
  IF a.type = "unusual_transaction"
  THEN (IF a.trxType = "ISSUE" THEN <<"Validasi SO & backlog">> ELSE <<>>)
         \o (IF a.trxType = "RECEIPT" THEN <<"Cek penerimaan PO & jadwal supplier">> ELSE <<>>)
         \o <<"Audit duplikasi (refId/refType)", "Lakukan cycle count">>
  ELSE IF a.type = "stockout"
  THEN <<"Rencanakan replenishment/transfer", "Komunikasikan ETA ke sales">>
  ELSE <<"Review terms/harga supplier", "Evaluasi dampak margin">>

\* An absent probableCause is "none".
Confidence_NeverLow(a) ==
  LET known == a.probableCause \notin {"none", "unknown"}
      afterHigh == IF known /\ a.severity \in {"critical", "high"} THEN "high" ELSE "medium"
  IN  IF a.baselineValue.num = 0 THEN "medium" ELSE afterHigh

Confidence(a) ==
  LET afterLow == IF a.baselineValue.num = 0 THEN "low" ELSE "medium"
      known == a.probableCause \notin {"none", "unknown"}
  IN  IF known /\ a.severity \in {"critical", "high"} THEN "high" ELSE afterLow

Priority(a) ==
  [productId |-> a.productId,
   warehouseId |-> a.warehouseId,
   severity |-> a.severity,
   title |-> PriorityTitle(a),
   rationale |-> [severity |-> a.severity,
                  probableCause |-> a.probableCause,
                  change |-> [num |-> Abs(a.changePercentage.num),
                              den |-> a.changePercentage.den]],
   suggestedActions |-> SuggestedActions(a),
   confidence |-> Confidence(a)]

TodayPriorities(alerts) ==
  LET top == PriorityOrder(alerts)
  IN  [k \in 1..Len(top) |-> Priority(alerts[top[k]])]

\* The value getCriticalAlerts returns, from what its parts returned:
\* unusualTrx, stockoutHistory, the price anomalies (empty when the detector
\* is off or failed) and the balances read by getCriticalAlerts itself.
CriticalAlerts(unusualTrx, stockoutHistory, priceAnoms, bals) ==
  LET frequent == SelectSeq(stockoutHistory, LAMBDA x : x.frequency >= 3)
      allAlerts == [k \in 1..Len(unusualTrx) |-> UnusualAlert(unusualTrx[k])]
                     \o [k \in 1..Len(frequent) |-> StockoutAlert(frequent[k])]
                     \o priceAnoms
      enriched == [k \in 1..Len(allAlerts) |-> Enrich(allAlerts[k], bals)]
  IN  [summary |-> [critical |-> CountSeverity(enriched, "critical"),
                    high |-> CountSeverity(enriched, "high"),
                    medium |-> CountSeverity(enriched, "medium"),
                    low |-> CountSeverity(enriched, "low"),
                    totalCount |-> Len(enriched),
                    todayPriorities |-> TodayPriorities(enriched)],
       alerts |-> enriched]

(***************************************************************************)
(* getProductPerformance                                                   *)
(*                                                                         *)
(* An absent filter is the empty string.  turnoverRate is kept as a ratio  *)
(* num/den with den > 0.                                                   *)
(***************************************************************************)
\* days: number = 30
PerformanceWindowDays == 30

\* [...poItems].sort by createdAt descending, then the first item of each
\* product: the product's most recent item, the first listed among equals.
LatestUnitCost(poItems, productId) ==
  LET mine == {i \in 1..Len(poItems) : poItems[i].productId = productId}
      best == CHOOSE i \in mine :
                \A j \in mine : \/ poItems[i].createdAt < poItems[j].createdAt
                                \/ poItems[i].createdAt = poItems[j].createdAt /\ i <= j
  IN  IF mine = {} THEN 0 ELSE poItems[best].unitCost

FilteredBalances(bals, warehouseFilter) ==
  IF warehouseFilter # "" THEN SelectSeq(bals, LAMBDA b : b.warehouseId = warehouseFilter)
  ELSE bals

TotalIssued(trxs, productId, warehouseFilter, days) ==
  LET mine == SelectSeq(trxs, LAMBDA t : /\ t.productId = productId
                                         /\ t.trxType = "ISSUE"
                                         /\ t.trxDate <= days
                                         /\ (warehouseFilter = "" \/ t.warehouseId = warehouseFilter))
  IN  QtySumTo(mine, Len(mine))

RECURSIVE OnHandSumTo(_, _)
OnHandSumTo(list, n) == IF n = 0 THEN 0 ELSE OnHandSumTo(list, n - 1) + list[n].qtyOnHand

ProductBalances(bals, productId, warehouseFilter) ==
  SelectSeq(FilteredBalances(bals, warehouseFilter), LAMBDA b : b.productId = productId)

\* The product passes every `continue` of the loop.
Evaluates(product, bals, warehouseFilter, categoryFilter) ==
  LET productBalances == ProductBalances(bals, product.productId, warehouseFilter)
  IN  /\ ~(categoryFilter # "" /\ product.category # categoryFilter)
      /\ Len(productBalances) # 0
      /\ OnHandSumTo(productBalances, Len(productBalances)) # 0

\* totalIssued / averageOnHand, averageOnHand being onHandSum / count.
TurnoverRate(totalIssued, onHandSum, count) ==
  IF onHandSum > 0 THEN [num |-> totalIssued * count, den |-> onHandSum]
  ELSE [num |-> -(totalIssued * count), den |-> -onHandSum]

\* The entry pushed for a product, before its category is set.
PerformanceEntry(product, trxs, bals, poItems, warehouseFilter, days) ==
  LET productBalances == ProductBalances(bals, product.productId, warehouseFilter)
      totalIssued == TotalIssued(trxs, product.productId, warehouseFilter, days)
      onHandSum == OnHandSumTo(productBalances, Len(productBalances))
      unitCost == LatestUnitCost(poItems, product.productId)
  IN  [productId |-> product.productId,
       productName |-> product.name,
       category |-> product.category,
       turnoverRate |-> TurnoverRate(totalIssued, onHandSum, Len(productBalances)),
       revenuePotential |-> unitCost * totalIssued,
       totalIssued30Days |-> totalIssued,
       latestUnitCost |-> unitCost,
       performanceCategory |-> "Question Mark"]

RatLess(x, y) == x.num * y.den < y.num * x.den
RatAtLeast(x, y) == ~RatLess(x, y)

\* sort((a, b) => a - b) of the turnover rates.
InsertRat(x, s) ==
  LET greater == {i \in 1..Len(s) : RatLess(x, s[i])}
      k == IF greater = {} THEN Len(s) + 1 ELSE CHOOSE i \in greater : \A j \in greater : i <= j
  IN  SubSeq(s, 1, k - 1) \o <<x>> \o SubSeq(s, k, Len(s))

RECURSIVE SortRatTo(_, _)
SortRatTo(s, n) == IF n = 0 THEN <<>> ELSE InsertRat(s[n], SortRatTo(s, n - 1))

\* Variant: the element below the middle, for an even number of elements.
MedianIndex_Lower(n) == (n + 1) \div 2

\* Math.floor(n / 2), as a position counted from 1.
MedianIndex(n) == (n \div 2) + 1

MedianTurnover(data) ==
  LET turnoverRates == SortRatTo([k \in 1..Len(data) |-> data[k].turnoverRate], Len(data))
  IN  IF Len(data) > 0 THEN turnoverRates[MedianIndex(Len(data))] ELSE [num |-> 0, den |-> 1]

MedianRevenue(data) ==
  LET revenuePotentials == SortAsc([k \in 1..Len(data) |-> data[k].revenuePotential])
  IN  IF Len(data) > 0 THEN revenuePotentials[MedianIndex(Len(data))] ELSE 0

\* Variant: a product below both medians is a Question Mark.
Quadrant_NoDog(highTurnover, highRevenue) ==
  IF highTurnover /\ highRevenue THEN "Star"
  ELSE IF ~highTurnover /\ highRevenue THEN "Cash Cow"
  ELSE "Question Mark"

Quadrant(highTurnover, highRevenue) ==
  IF highTurnover /\ highRevenue THEN "Star"
  ELSE IF ~highTurnover /\ highRevenue THEN "Cash Cow"
  ELSE IF highTurnover /\ ~highRevenue THEN "Question Mark"
  ELSE "Dog"

CountCategory(data, cat) ==
  Cardinality({k \in 1..Len(data) : data[k].performanceCategory = cat})

\* .sort by revenuePotential (descending for the stars, ascending for the
\* dogs), stable, then slice(0, 5).
InsertByRevenue(x, s, descending) ==
  LET after == {i \in 1..Len(s) :
                  IF descending THEN s[i].revenuePotential < x.revenuePotential
                  ELSE s[i].revenuePotential > x.revenuePotential}
      k == IF after = {} THEN Len(s) + 1 ELSE CHOOSE i \in after : \A j \in after : i <= j
  IN  SubSeq(s, 1, k - 1) \o <<x>> \o SubSeq(s, k, Len(s))

RECURSIVE SortByRevenueTo(_, _, _)
SortByRevenueTo(s, n, descending) ==
  IF n = 0 THEN <<>>
  ELSE InsertByRevenue(s[n], SortByRevenueTo(s, n - 1, descending), descending)

TopFive(data, cat, descending) ==
  LET chosen == SelectSeq(data, LAMBDA p : p.performanceCategory = cat)
      sorted == SortByRevenueTo(chosen, Len(chosen), descending)
  IN  SubSeq(sorted, 1, Min(5, Len(sorted)))

GetProductPerformance(trxs, bals, prods, poItems, warehouseFilter, categoryFilter, days) ==
  LET evaluated == SelectSeq(prods, LAMBDA p : Evaluates(p, bals, warehouseFilter,
                                                         categoryFilter))
      performanceData == [k \in 1..Len(evaluated) |->
                            PerformanceEntry(evaluated[k], trxs, bals, poItems,
                                             warehouseFilter, days)]
      medianTurnover == MedianTurnover(performanceData)
      medianRevenue == MedianRevenue(performanceData)
      categorized ==
        [k \in 1..Len(performanceData) |->
           [performanceData[k] EXCEPT !.performanceCategory =
              Quadrant(RatAtLeast(performanceData[k].turnoverRate, medianTurnover),
                       performanceData[k].revenuePotential >= medianRevenue)]]
  IN  [summary |-> [stars |-> CountCategory(categorized, "Star"),
                    cashCows |-> CountCategory(categorized, "Cash Cow"),
                    questionMarks |-> CountCategory(categorized, "Question Mark"),
                    dogs |-> CountCategory(categorized, "Dog"),
                    medianTurnover |-> medianTurnover,
                    medianRevenue |-> medianRevenue],
       products |-> categorized,
       topStars |-> TopFive(categorized, "Star", TRUE),
       bottomDogs |-> TopFive(categorized, "Dog", FALSE)]

(***************************************************************************)
(* The read-only operations: detectUnusualTransactions,                    *)
(* analyzeStockoutHistory, getProductPerformance, getCriticalAlerts.       *)
(***************************************************************************)
OpNames == {"detectUnusualTransactions", "analyzeStockoutHistory",
            "getProductPerformance", "getCriticalAlerts"}

\* The reads of each operation's Promise.all, as <<issuer, collection>>.
DetectReads == {<<"detectUnusualTransactions", c>> : c \in {"transactions", "products", "warehouses"}}
StockoutReads == {<<"analyzeStockoutHistory", c>> :
                    c \in {"transactions", "balances", "products", "warehouses"}}
PerformanceReads == {<<"getProductPerformance", c>> :
                       c \in {"transactions", "balances", "products", "purchaseOrderItems",
                              "warehouses"}}
AlertReads == DetectReads \cup StockoutReads
                \cup {<<"getCriticalAlerts", c>> : c \in {"balances", "products"}}
PriceReads == {<<"detectPriceVariance", c>> : c \in {"purchaseOrderItems", "products"}}

OpReadsOf(o) ==
  CASE o = "detectUnusualTransactions" -> DetectReads
    [] o = "analyzeStockoutHistory" -> StockoutReads
    [] o = "getProductPerformance" -> PerformanceReads
    [] o = "getCriticalAlerts" -> AlertReads

\* Variant: getCriticalAlerts swallows the failure of any of its reads.
Swallowed_All(o, r) == o = "getCriticalAlerts"

\* try { if (PRICE_VARIANCE_ENABLED) ... await this.detectPriceVariance() } catch {}:
\* a failure of the price-variance detector is swallowed by getCriticalAlerts.
Swallowed(o, r) == o = "getCriticalAlerts" /\ r \in PriceReads

\* What the operation computes from what its reads returned; `price` tells
\* whether the price-variance anomalies are part of it.
OpValue(o, price) ==
  LET f(issuer, c) == opFetched[<<issuer, c>>]
      unusualTrx == DetectUnusualTransactions(f("detectUnusualTransactions", "transactions"),
                                              f("detectUnusualTransactions", "products"),
                                              f("detectUnusualTransactions", "warehouses"),
                                              DefaultLookbackDays, DefaultThresholdPercentage)
      stockoutHistory == AnalyzeStockoutHistory(f("analyzeStockoutHistory", "transactions"),
                                                f("analyzeStockoutHistory", "balances"),
                                                f("analyzeStockoutHistory", "products"),
                                                f("analyzeStockoutHistory", "warehouses"),
                                                StockoutWindowDays)
  IN  CASE o = "detectUnusualTransactions" -> unusualTrx
        [] o = "analyzeStockoutHistory" -> stockoutHistory
        [] o = "getProductPerformance" ->
             GetProductPerformance(f(o, "transactions"), f(o, "balances"), f(o, "products"),
                                   f(o, "purchaseOrderItems"), "", "", PerformanceWindowDays)
        [] o = "getCriticalAlerts" ->
             CriticalAlerts(unusualTrx, stockoutHistory,
                            IF price = "included"
                            THEN DetectPriceVariance(f("detectPriceVariance", "purchaseOrderItems"),
                                                     f("detectPriceVariance", "products"))
                            ELSE <<>>,
                            f("getCriticalAlerts", "balances"))

OpResponse(o, price) == [op |-> o, priceVariance |-> price, value |-> OpValue(o, price)]

OpStart(o) ==
  /\ opPc \in {"idle", "done", "failed"}
  /\ opRunsLeft > 0
  /\ opPc' = "reading"
  /\ opName' = o
  /\ opRunsLeft' = opRunsLeft - 1
  /\ opReads' = [r \in OpReadsOf(o) |-> "pending"]
  /\ opFetched' = [r \in OpReadsOf(o) |-> <<>>]
  /\ opResult' = None
  /\ UNCHANGED <<storeVars, policy, adjustVars, priceVarianceEnabled, recVars, jobVars>>

OpReadOk(r) ==
  /\ opPc \in {"reading", "price"}
  /\ r \in DOMAIN opReads
  /\ opReads[r] = "pending"
  /\ opReads' = [opReads EXCEPT ![r] = "ok"]
  /\ opFetched' = [opFetched EXCEPT ![r] = StoreRead(r[2])]
  /\ UNCHANGED <<opPc, opName, opResult, opRunsLeft, storeVars, policy, adjustVars,
                 priceVarianceEnabled, recVars, jobVars>>

\* A read fails: the operation throws, unless the failure is swallowed.
OpReadFail(r) ==
  /\ opPc \in {"reading", "price"}
  /\ r \in DOMAIN opReads
  /\ opReads[r] = "pending"
  /\ opReads' = [x \in DOMAIN opReads |->
                   IF x = r THEN "failed"
                   ELSE IF opReads[x] = "pending" \/ opPc = "reading" THEN "abandoned"
                   ELSE opReads[x]]
  /\ IF Swallowed(opName, r)
     THEN /\ opPc' = "done"
          /\ opResult' = OpResponse(opName, "skipped")
          /\ UNCHANGED opFetched
     ELSE /\ opPc' = "failed"
          /\ opResult' = None
          /\ opFetched' = [x \in DOMAIN opFetched |-> <<>>]
  /\ UNCHANGED <<opName, opRunsLeft, storeVars, policy, adjustVars, priceVarianceEnabled,
                 recVars, jobVars>>

\* The reads of the Promise.all are in: the operation computes and returns, or
\* (getCriticalAlerts with the flag set) awaits the price-variance detector.
OpResume ==
  /\ opPc = "reading"
  /\ \A r \in OpReadsOf(opName) : opReads[r] = "ok"
  /\ IF opName = "getCriticalAlerts" /\ priceVarianceEnabled
     THEN /\ opPc' = "price"
          /\ opReads' = [r \in OpReadsOf(opName) \cup PriceReads |->
                           IF r \in PriceReads THEN "pending" ELSE opReads[r]]
          /\ opFetched' = [r \in OpReadsOf(opName) \cup PriceReads |->
                             IF r \in PriceReads THEN <<>> ELSE opFetched[r]]
          /\ UNCHANGED opResult
     ELSE /\ opPc' = "done"
          /\ opResult' = OpResponse(opName, "off")
          /\ UNCHANGED <<opReads, opFetched>>
  /\ UNCHANGED <<opName, opRunsLeft, storeVars, policy, adjustVars, priceVarianceEnabled,
                 recVars, jobVars>>

OpPriceResume ==
  /\ opPc = "price"
  /\ \A r \in PriceReads : opReads[r] = "ok"
  /\ opPc' = "done"
  /\ opResult' = OpResponse(opName, "included")
  /\ UNCHANGED <<opName, opReads, opFetched, opRunsLeft, storeVars, policy, adjustVars,
                 priceVarianceEnabled, recVars, jobVars>>

OpNext ==
  \/ \E o \in OpNames : OpStart(o)
  \/ \E r \in AlertReads \cup PerformanceReads \cup PriceReads : OpReadOk(r)
  \/ \E r \in AlertReads \cup PerformanceReads \cup PriceReads : OpReadFail(r)
  \/ OpResume
  \/ OpPriceResume

(***************************************************************************)
(* One evaluation of the recommendation, on inputs drawn from bounded sets. *)
(***************************************************************************)
\* A 30-day series: `active` days of issues of q or 2q, then zeros, with
\* `spike` on the last day.
Series(active, q, spike) ==
  [i \in 1..windowDays |->
     IF i <= active THEN q * (1 + (i % 2))
     ELSE IF i = windowDays THEN spike ELSE 0]

SpikeSeries == Series(0, 1, 100)
ZeroSeries == Series(0, 1, 0)

RecSeries == {Series(a, q, s) : a \in 0..MaxActiveDays, q \in {1, 7}, s \in {0, 100}}
RecCurrents == 0..MaxCurrent \cup {50, 100}
RecPolicies ==
  [serviceLevel : {900, 950, 980, 990}, leadTimeDays : {0, 7},
   maxChangePercent : {0, 20, 50}, roundToPack : {0, 4}, minSafetyStock : {0, 5, 90}]

Evaluate ==
  /\ recOut = None
  /\ recOut' = [recommended |-> Recommended(recIn.daily, recIn.current, recIn.policy),
                unclamped |-> RecommendedNoClamp(recIn.daily, recIn.current, recIn.policy)]
  /\ UNCHANGED <<recIn, callIn, callOut, storeVars, policy, adjustVars, opVars,
                 priceVarianceEnabled, jobVars>>

(***************************************************************************)
(* One evaluation of analyzeStockoutHistory, on inputs drawn from bounded  *)
(* sets: the balance of P1 in W1 with up to MaxTrx transactions in the     *)
(* window, in any order, next to a balance of P2 that was out of stock once *)
(* and a transaction older than the window.                                *)
(***************************************************************************)
StockoutQtys == -2..3

StockoutTrxChoices ==
  {Trx(d, "W1", "P1", ty, q) : d \in {1, 2}, ty \in {"ISSUE", "RECEIPT"}, q \in {1, 2}}

StockoutLedgers == UNION {[1..n -> StockoutTrxChoices] : n \in 0..MaxTrx}

StockoutFixedTrx ==
  << Trx(StockoutWindowDays + 1, "W1", "P1", "RECEIPT", 9),
     Trx(3, "W1", "P2", "RECEIPT", 1),
     Trx(4, "W2", "P1", "RECEIPT", 7) >>

StockoutInputs ==
  {[fn |-> "analyzeStockoutHistory",
    transactions |-> l \o StockoutFixedTrx,
    balances |-> <<Balance("W1", "P2", 1, 3), Balance("W1", "P1", q, 5)>>,
    days |-> StockoutWindowDays] : l \in StockoutLedgers, q \in StockoutQtys}

EvaluateStockout ==
  /\ callIn # None
  /\ callIn.fn = "analyzeStockoutHistory"
  /\ callOut = None
  /\ callOut' = [items |-> AnalyzeStockoutHistory(callIn.transactions, callIn.balances,
                                                   products, warehouses, callIn.days)]
  /\ UNCHANGED <<callIn, recIn, recOut, storeVars, policy, adjustVars, opVars,
                 priceVarianceEnabled, jobVars>>

(***************************************************************************)
(* One evaluation of detectUnusualTransactions or of the composition of    *)
(* getCriticalAlerts, on inputs drawn from bounded sets: the tuple         *)
(* (P1, W1, type) with one of the recent and one of the baseline patterns  *)
(* below, next to a receipt tuple of P2 that is always anomalous, a        *)
(* product that ran out of stock three times and a transaction older than  *)
(* both windows.                                                           *)
(***************************************************************************)
RecentPatterns == {"even30", "spike", "dup30", "dupSpike", "small3", "few", "low7",
                   "mid", "crit", "big6"}

RecentPattern(name, type) ==
  CASE name = "even30" -> [d \in 1..7 |-> Trx(d, "W1", "P1", type, 30)]
    [] name = "spike" -> <<Trx(1, "W1", "P1", type, 210)>>
    [] name = "dup30" ->
         [d \in 1..7 |-> TrxRef(d, "W1", "P1", type, 30, <<"ref", IF d <= 2 THEN 1 ELSE d>>)]
    [] name = "dupSpike" -> << TrxRef(0, "W1", "P1", type, 105, <<"ref", 1>>),
                               TrxRef(0, "W1", "P1", type, 105, <<"ref", 1>>) >>
    [] name = "small3" -> <<Trx(1, "W1", "P1", type, 3)>>
    [] name = "few" -> <<Trx(1, "W1", "P1", type, 105), Trx(7, "W1", "P1", type, 105)>>
    [] name = "low7" -> [d \in 1..7 |-> Trx(d, "W1", "P1", type, 1)]
    [] name = "mid" -> [d \in 1..7 |-> Trx(d, "W1", "P1", type, 25)]
    [] name = "crit" -> [d \in 1..7 |-> Trx(d, "W1", "P1", type, 40)]
    [] name = "big6" -> <<Trx(2, "W1", "P1", type, 6)>>

BaselinePatterns == {"even10", "few10", "one1", "none", "zero"}

BaselinePattern(name, type) ==
  CASE name = "even10" -> [d \in 1..7 |-> Trx(7 + d, "W1", "P1", type, 10)]
    [] name = "few10" -> <<Trx(8, "W1", "P1", type, 35), Trx(9, "W1", "P1", type, 35)>>
    [] name = "one1" -> <<Trx(10, "W1", "P1", type, 1)>>
    [] name = "none" -> <<>>
    [] name = "zero" -> <<Trx(9, "W1", "P1", type, 0)>>

\* The receipts of P2 in W1: 210 in the recent window on two days, 70 in the
\* baseline window.
OtherTupleTrx ==
  << Trx(1, "W1", "P2", "RECEIPT", 105), Trx(2, "W1", "P2", "RECEIPT", 105) >>
  \o [d \in 1..7 |-> Trx(7 + d, "W1", "P2", "RECEIPT", 10)]

\* P2 in W2 went out of stock three times before the two windows.
StockoutEpisodes ==
  << Trx(24, "W2", "P2", "RECEIPT", 1), Trx(23, "W2", "P2", "ISSUE", 1),
     Trx(22, "W2", "P2", "RECEIPT", 1), Trx(21, "W2", "P2", "ISSUE", 1),
     Trx(20, "W2", "P2", "RECEIPT", 1) >>

DetectLedger(recent, baseline, type) ==
  OtherTupleTrx \o BaselinePattern(baseline, type) \o RecentPattern(recent, type)
    \o StockoutEpisodes \o <<Trx(2 * DefaultLookbackDays + 1, "W1", "P1", type, 900)>>

DetectInputs ==
  {[fn |-> "detectUnusualTransactions",
    transactions |-> DetectLedger(r, b, ty),
    recent |-> r, baseline |-> b, trxType |-> ty,
    lookbackDays |-> DefaultLookbackDays,
    thresholdPercentage |-> th] :
     r \in RecentPatterns, b \in BaselinePatterns, ty \in {"ISSUE", "RECEIPT"},
     th \in {DefaultThresholdPercentage, 50}}

\* Purchases whose average unit cost moved by 40%, by 10%, or too few of them.
PurchaseHistories ==
  { <<>>,
    InitialPurchaseOrderItems,
    << POItem("P1", 11, 1), POItem("P1", 11, 2), POItem("P1", 11, 5),
       POItem("P1", 10, 10), POItem("P1", 10, 20), POItem("P1", 10, 30) >>,
    << POItem("P2", 5, 1), POItem("P2", 5, 2), POItem("P2", 5, 3),
       POItem("P2", 10, 10), POItem("P2", 10, 20), POItem("P2", 10, 30),
       POItem("P1", 50, 9) >> }

AlertInputs ==
  {[fn |-> "getCriticalAlerts",
    transactions |-> DetectLedger(r, b, ty),
    recent |-> r, baseline |-> b, trxType |-> ty,
    balances |-> <<Balance("W1", "P1", q, s), Balance("W1", "P2", 400, 100),
                   Balance("W2", "P2", 1, z)>>,
    purchaseOrderItems |-> po] :
     r \in RecentPatterns, b \in BaselinePatterns, ty \in {"ISSUE", "RECEIPT"},
     q \in {0, 100, 400}, s \in {10, 100}, z \in {0, 2}, po \in PurchaseHistories}

EvaluateDetect ==
  /\ callIn # None
  /\ callIn.fn = "detectUnusualTransactions"
  /\ callOut = None
  /\ callOut' = [items |-> DetectUnusualTransactions(callIn.transactions, products, warehouses,
                                                     callIn.lookbackDays,
                                                     callIn.thresholdPercentage)]
  /\ UNCHANGED <<callIn, recIn, recOut, storeVars, policy, adjustVars, opVars,
                 priceVarianceEnabled, jobVars>>

EvaluateAlerts ==
  /\ callIn # None
  /\ callIn.fn = "getCriticalAlerts"
  /\ callOut = None
  /\ callOut' =
       CriticalAlerts(
         DetectUnusualTransactions(callIn.transactions, products, warehouses,
                                   DefaultLookbackDays, DefaultThresholdPercentage),
         AnalyzeStockoutHistory(callIn.transactions, callIn.balances, products, warehouses,
                                StockoutWindowDays),
         DetectPriceVariance(callIn.purchaseOrderItems, products),
         callIn.balances)
  /\ UNCHANGED <<callIn, recIn, recOut, storeVars, policy, adjustVars, opVars,
                 priceVarianceEnabled, jobVars>>

(***************************************************************************)
(* One evaluation of getProductPerformance, on inputs drawn from bounded   *)
(* sets: MaxProducts products, the i-th issued 10*i units from a stock of  *)
(* 10 and bought at a unit cost of 1, each in one of the variants below.   *)
(***************************************************************************)
PerfIds == <<"P1", "P2", "P3", "P4", "P5", "P6">>

PerfVariants == {"plain", "inactive", "packaging", "zeroOnHand", "annex", "costly",
                 "noCost", "tie"}

PerfProduct(i, v) ==
  [productId |-> PerfIds[i], name |-> PerfIds[i],
   category |-> IF v = "packaging" THEN "Packaging" ELSE "Raw Material",
   isActive |-> v # "inactive"]

\* The stock is held in W1, for the variant "annex" in W2.
PerfBalance(i, v) ==
  Balance(IF v = "annex" THEN "W2" ELSE "W1", PerfIds[i],
          IF v = "zeroOnHand" THEN 0 ELSE 10, 0)

PerfTrx(i, v) ==
  << Trx(5, IF v = "annex" THEN "W2" ELSE "W1", PerfIds[i], "ISSUE",
         IF v = "tie" THEN 10 ELSE 10 * i) >>

\* The variant "costly" was bought at 1 and, more recently, at 7.
PerfPOItems(i, v) ==
  CASE v = "costly" -> <<POItem(PerfIds[i], 1, 9), POItem(PerfIds[i], 7, 2)>>
    [] v = "noCost" -> <<>>
    [] OTHER -> <<POItem(PerfIds[i], 1, 3)>>

RECURSIVE Flatten(_, _)
Flatten(f, n) == IF n = 0 THEN <<>> ELSE Flatten(f, n - 1) \o f[n]

\* An issue older than the window and a receipt, both of the first product.
PerfFixedTrx ==
  << Trx(PerformanceWindowDays + 1, "W1", "P1", "ISSUE", 500),
     Trx(3, "W1", "P1", "RECEIPT", 70) >>

PerformanceInputs ==
  {[fn |-> "getProductPerformance",
    products |-> [i \in 1..MaxProducts |-> PerfProduct(i, vs[i])],
    balances |-> [i \in 1..MaxProducts |-> PerfBalance(i, vs[i])],
    transactions |-> PerfFixedTrx \o Flatten([i \in 1..MaxProducts |-> PerfTrx(i, vs[i])],
                                             MaxProducts),
    purchaseOrderItems |-> Flatten([i \in 1..MaxProducts |-> PerfPOItems(i, vs[i])],
                                   MaxProducts),
    warehouseId |-> w,
    categoryFilter |-> c,
    days |-> PerformanceWindowDays] :
     vs \in [1..MaxProducts -> PerfVariants], w \in {"", "W1"}, c \in {"", "Raw Material"}}

EvaluatePerformance ==
  /\ callIn # None
  /\ callIn.fn = "getProductPerformance"
  /\ callOut = None
  /\ callOut' = GetProductPerformance(callIn.transactions, callIn.balances, callIn.products,
                                      callIn.purchaseOrderItems, callIn.warehouseId,
                                      callIn.categoryFilter, callIn.days)
  /\ UNCHANGED <<callIn, recIn, recOut, storeVars, policy, adjustVars, opVars,
                 priceVarianceEnabled, jobVars>>

(***************************************************************************)
(* The cron handler (src/api/cron.ts) and the daily job                    *)
(* runDailySafetyStockAndEmail.  The handler is the job's caller; the job   *)
(* calls autoAdjustSafetyStock for one warehouse after the other and       *)
(* awaits each call.  An unset CRON_SECRET, an absent header and an absent *)
(* query token are the empty string; an absent options.warehouses is       *)
(* given = FALSE.                                                          *)
(***************************************************************************)
\* (req.headers['x-cron-secret'] as string) || (req.query.token as string) || ''
Provided(req) == IF req.header # "" THEN req.header ELSE req.token

\* The status the handler answers before running the job, 0 when it runs it.
CronStatus_MethodFirst(req) ==
  IF req.method # "GET" THEN 405
  ELSE IF req.secret # "" /\ Provided(req) # req.secret THEN 401
  ELSE 0

CronStatus(req) ==
  IF req.secret # "" /\ Provided(req) # req.secret THEN 401
  ELSE IF req.method # "GET" THEN 405
  ELSE 0

\* allWarehouses.filter(w => w.isActive).filter(w => !options.warehouses || ...)
TargetWarehouses_All(all, options) ==
  SelectSeq(all, LAMBDA w : ~options.given \/ w.warehouseId \in options.ids)

TargetWarehouses(all, options) ==
  SelectSeq(SelectSeq(all, LAMBDA w : w.isActive),
            LAMBDA w : ~options.given \/ w.warehouseId \in options.ids)

RECURSIVE SumField(_, _, _)
SumField(s, field, n) == IF n = 0 THEN 0 ELSE SumField(s, field, n - 1) + s[n][field]

\* The report the job returns.
Report(targets, adjs, emailOutcome) ==
  [policy |-> policy,
   warehouses |-> [k \in 1..Len(targets) |->
                     [id |-> targets[k].warehouseId, name |-> targets[k].name]],
   safetyStock |->
     [totalCandidates |-> SumField(adjs, "totalCandidates", Len(adjs)),
      totalApplied |-> SumField(adjs, "appliedCount", Len(adjs)),
      perWarehouse |-> [k \in 1..Len(adjs) |->
                          [warehouseId |-> adjs[k].warehouseId,
                           applied |-> adjs[k].appliedCount,
                           candidates |-> adjs[k].totalCandidates]]],
   email |-> [attempted |-> emailOutcome # "skipped",
              sent |-> emailOutcome = "sent"]]

\* The handler answers a request: 401 or 405, or it calls the job.
Handle ==
  /\ request # None
  /\ response = None
  /\ jobPc = "idle"
  /\ IF CronStatus(request) # 0
     THEN /\ response' = [status |-> CronStatus(request), ok |-> FALSE]
          /\ UNCHANGED jobPc
     ELSE /\ jobPc' = "warehouses"
          /\ UNCHANGED response
  /\ UNCHANGED <<request, jobOptions, targetWarehouses, jobIdx, adjustments, report,
                 storeVars, policy, adjustVars, opVars, priceVarianceEnabled, recVars>>

\* The job is called directly, with its options.
JobStart ==
  /\ request = None
  /\ jobPc = "idle"
  /\ jobPc' = "warehouses"
  /\ UNCHANGED <<request, response, jobOptions, targetWarehouses, jobIdx, adjustments,
                 report, storeVars, policy, adjustVars, opVars, priceVarianceEnabled,
                 recVars>>

\* database.getWarehouses() returns: the targets are selected.
JobWarehousesOk ==
  /\ jobPc = "warehouses"
  /\ jobPc' = "loop"
  /\ targetWarehouses' = TargetWarehouses(warehouses, jobOptions)
  /\ jobIdx' = 1
  /\ UNCHANGED <<request, response, jobOptions, adjustments, report,
                 storeVars, policy, adjustVars, opVars, priceVarianceEnabled, recVars>>

\* database.getWarehouses() fails: the job throws, the handler answers 500.
JobWarehousesFail ==
  /\ jobPc = "warehouses"
  /\ jobPc' = "failed"
  /\ response' = IF request # None THEN [status |-> 500, ok |-> FALSE] ELSE response
  /\ UNCHANGED <<request, jobOptions, targetWarehouses, jobIdx, adjustments, report,
                 storeVars, policy, adjustVars, opVars, priceVarianceEnabled, recVars>>

\* The loop calls autoAdjustSafetyStock for its next warehouse.
JobAdjust ==
  /\ jobPc = "loop"
  /\ jobIdx <= Len(targetWarehouses)
  /\ Len(runLog) = jobIdx - 1
  /\ StartRun(targetWarehouses[jobIdx].warehouseId)

\* The call returned (its result is pushed) or threw (the catch logs it); the
\* loop moves to the next warehouse.
JobCollect ==
  /\ jobPc = "loop"
  /\ jobIdx <= Len(targetWarehouses)
  /\ Len(runLog) = jobIdx
  /\ pc \in {"done", "failed"}
  /\ adjustments' = IF pc = "done" THEN Append(adjustments, result) ELSE adjustments
  /\ jobIdx' = jobIdx + 1
  /\ UNCHANGED <<request, response, jobPc, jobOptions, targetWarehouses, report,
                 storeVars, policy, adjustVars, opVars, priceVarianceEnabled, recVars>>

\* After the loop generateExecutiveSummary returns or throws (caught either
\* way), the email is sent, fails (caught) or is skipped, and the job returns
\* its report; the handler answers 200.
JobFinish(emailOutcome) ==
  /\ jobPc = "loop"
  /\ jobIdx > Len(targetWarehouses)
  /\ jobPc' = "done"
  /\ report' = Report(targetWarehouses, adjustments, emailOutcome)
  /\ response' = IF request # None THEN [status |-> 200, ok |-> TRUE] ELSE response
  /\ UNCHANGED <<request, jobOptions, targetWarehouses, jobIdx, adjustments,
                 storeVars, policy, adjustVars, opVars, priceVarianceEnabled, recVars>>

JobNext ==
  \/ Handle
  \/ JobStart
  \/ JobWarehousesOk
  \/ JobWarehousesFail
  \/ JobAdjust
  \/ \E r \in ReadNames : ReadOk(r)
  \/ \E r \in ReadNames : ReadFail(r)
  \/ Resume
  \/ WriteOk
  \/ WriteFail
  \/ JobCollect
  \/ \E emailOutcome \in {"skipped", "sent", "failed"} : JobFinish(emailOutcome)

(***************************************************************************)
(* Specifications.                                                         *)
(***************************************************************************)
InitAdjust ==
  /\ pc = "idle"
  /\ warehouseId = "W1"
  /\ reads = [r \in ReadNames |-> "pending"]
  /\ fetched = [r \in ReadNames |-> <<>>]
  /\ idx = 0
  /\ changes = <<>>
  /\ inflight = {}
  /\ result = None
  /\ events = <<>>
  /\ runLog = <<>>

InitOp ==
  /\ opPc = "idle"
  /\ opName = "getCriticalAlerts"
  /\ opReads = [r \in AlertReads |-> "pending"]
  /\ opFetched = [r \in AlertReads |-> <<>>]
  /\ opResult = None

\* No read-only computation is being evaluated.
InitCall ==
  /\ callIn = None
  /\ callOut = None

\* No request and no daily job.
InitJob ==
  /\ request = None
  /\ response = None
  /\ jobPc = "off"
  /\ jobOptions = [given |-> FALSE, ids |-> {}]
  /\ targetWarehouses = <<>>
  /\ jobIdx = 0
  /\ adjustments = <<>>
  /\ report = None

InitStore(active, s1, s2, s3) ==
  /\ balances = << Balance("W1", "P1", 40, s1),
                   Balance("W2", "P1", 0, s2),
                   Balance("W1", "P2", 7, s3) >>
  /\ transactions = Ledger(active)
  /\ products = InitialProducts
  /\ warehouses = InitialWarehouses
  /\ purchaseOrderItems = InitialPurchaseOrderItems

\* Runs of autoAdjustSafetyStock, one after the other, on a store and a policy
\* drawn from the bounded sets.
Init ==
  /\ \E active \in 0..MaxActiveDays, s1 \in StockValues :
       InitStore(active, s1, 10, 100)
  /\ policy \in Policies
  /\ priceVarianceEnabled = FALSE
  /\ InitAdjust
  /\ InitOp
  /\ runsLeft = MaxRuns
  /\ opRunsLeft = 0
  /\ recIn = None
  /\ recOut = None
  /\ InitCall
  /\ InitJob

Next == AdjustNext

Spec == Init /\ [][Next]_vars

\* Invocations of autoAdjustSafetyStock and of the read-only operations.
InitOps ==
  /\ InitStore(MaxActiveDays, 10, 10, 100)
  /\ policy = DefaultPolicy
  /\ priceVarianceEnabled \in BOOLEAN
  /\ InitAdjust
  /\ InitOp
  /\ runsLeft = 1
  /\ opRunsLeft = MaxOpRuns
  /\ recIn = None
  /\ recOut = None
  /\ InitCall
  /\ InitJob

\* The caller invokes one operation at a time.
AdjustIdle == pc \in {"idle", "done", "failed"}
OpIdle == opPc \in {"idle", "done", "failed"}

NextOps ==
  \/ OpIdle /\ AdjustNext
  \/ AdjustIdle /\ OpNext

SpecOps == InitOps /\ [][NextOps]_vars

\* The recommendation as a function of its inputs.
InitRec ==
  /\ InitStore(0, 0, 0, 0)
  /\ policy = DefaultPolicy
  /\ priceVarianceEnabled = FALSE
  /\ InitAdjust
  /\ InitOp
  /\ runsLeft = 0
  /\ opRunsLeft = 0
  /\ recIn \in [daily : RecSeries, current : RecCurrents, policy : RecPolicies]
  /\ recOut = None
  /\ InitCall
  /\ InitJob

NextRec == Evaluate

SpecRec == InitRec /\ [][NextRec]_vars

\* The read-only computations as functions of their inputs.
InitPure(inputs) ==
  /\ InitStore(0, 0, 0, 0)
  /\ policy = DefaultPolicy
  /\ priceVarianceEnabled = FALSE
  /\ InitAdjust
  /\ InitOp
  /\ runsLeft = 0
  /\ opRunsLeft = 0
  /\ recIn = None
  /\ recOut = None
  /\ callIn \in inputs
  /\ callOut = None
  /\ InitJob

InitStockout == InitPure(StockoutInputs)

NextStockout == EvaluateStockout

SpecStockout == InitStockout /\ [][NextStockout]_vars

InitDetect == InitPure(DetectInputs \cup AlertInputs)

NextDetect ==
  \/ EvaluateDetect
  \/ EvaluateAlerts

SpecDetect == InitDetect /\ [][NextDetect]_vars

InitPerformance == InitPure(PerformanceInputs)

NextPerformance == EvaluatePerformance

SpecPerformance == InitPerformance /\ [][NextPerformance]_vars

\* Caps of 20% and 50% and no cap, with and without a pack size and a minimum.
RepeatPolicies ==
  [serviceLevel : {950}, leadTimeDays : {7}, maxChangePercent : {0, 20, 50},
   roundToPack : {0, 4}, minSafetyStock : {0, 5}]

\* autoAdjustSafetyStock invoked again and again for W1, every read and write
\* succeeding, with no other writer and the transactions unchanged.
InitRepeat ==
  /\ \E active \in {0, MaxActiveDays}, s1 \in StockValues :
       InitStore(active, s1, 10, 100)
  /\ policy \in RepeatPolicies
  /\ priceVarianceEnabled = FALSE
  /\ InitAdjust
  /\ InitOp
  /\ runsLeft = MaxRepeat
  /\ opRunsLeft = 0
  /\ recIn = None
  /\ recOut = None
  /\ InitCall
  /\ InitJob

NextRepeat ==
  \/ StartRun("W1")
  \/ \E r \in ReadNames : ReadOk(r)
  \/ Resume
  \/ WriteOk

\* What a step of NextRepeat does to pc, reads and idx: every step of
\* NextRepeat is a step of Advance, and Advance is enabled exactly when
\* NextRepeat is.  Fairness is stated on it, its enabling condition needing no
\* evaluation of the recommendation.
progressVars == <<pc, reads, idx>>

Advance ==
  \/ /\ pc \in {"idle", "done", "failed"}
     /\ runsLeft > 0
     /\ pc' = "reading"
     /\ reads' = [r \in ReadNames |-> "pending"]
     /\ idx' = 0
  \/ \E r \in ReadNames :
       /\ pc = "reading"
       /\ reads[r] = "pending"
       /\ reads' = [reads EXCEPT ![r] = "ok"]
       /\ UNCHANGED <<pc, idx>>
  \/ /\ pc = "reading"
     /\ AllReadsDone
     /\ pc' \in {"writing", "done"}
     /\ idx' \in 1..(Len(Targets) + 1)
     /\ UNCHANGED reads
  \/ /\ pc = "writing"
     /\ inflight # {}
     /\ pc' \in {"writing", "done"}
     /\ idx' \in (idx + 1)..(Len(Targets) + 1)
     /\ UNCHANGED reads

\* The runtime resumes an invocation whose awaited reads or write are settled,
\* and the caller keeps invoking: a step that can be taken is eventually taken.
SpecRepeat == InitRepeat /\ [][NextRepeat]_vars /\ WF_progressVars(Advance)

\* The requests the cron handler is sent, with the configured secret.
CronRequests ==
  [secret : {"", "s3cret"}, header : {"", "s3cret", "guess"}, token : {"", "s3cret"},
   method : {"GET", "POST"}]

\* options.warehouses: absent, or a list of warehouse ids.
JobOptions ==
  {[given |-> FALSE, ids |-> {}]}
    \cup {[given |-> TRUE, ids |-> ids] : ids \in {{}, {"W2"}, {"W1", "W3"}}}

\* The daily job, called by the cron handler or directly, on a store with two
\* active warehouses and an inactive one; W1 holds two balances and each of
\* them is due a write.
InitDaily ==
  /\ balances = << Balance("W1", "P1", 40, 10),
                   Balance("W2", "P1", 0, 10),
                   Balance("W3", "P1", 5, 100),
                   Balance("W1", "P2", 7, 100) >>
  /\ transactions = Ledger(MaxActiveDays)
  /\ products = InitialProducts
  /\ warehouses = << InitialWarehouses[1],
                     [warehouseId |-> "W3", name |-> "Depot", isActive |-> FALSE],
                     InitialWarehouses[2] >>
  /\ purchaseOrderItems = InitialPurchaseOrderItems
  /\ policy = DefaultPolicy
  /\ priceVarianceEnabled = FALSE
  /\ InitAdjust
  /\ InitOp
  /\ runsLeft = Len(warehouses)
  /\ opRunsLeft = 0
  /\ recIn = None
  /\ recOut = None
  /\ InitCall
  /\ \/ request \in CronRequests /\ jobOptions = [given |-> FALSE, ids |-> {}]
     \/ request = None /\ jobOptions \in JobOptions
  /\ response = None
  /\ jobPc = "idle"
  /\ targetWarehouses = <<>>
  /\ jobIdx = 0
  /\ adjustments = <<>>
  /\ report = None

NextDaily == JobNext

SpecDaily == InitDaily /\ [][NextDaily]_vars

\* A ledger in which P1 of W1 ran out of stock three times in the last week,
\* each time refilled by a receipt, and was issued far more in the recent
\* window (90) than in the baseline window (10).
AlertLedger ==
  << Trx(9, "W1", "P1", "ISSUE", 10),
     Trx(6, "W1", "P1", "ISSUE", 30), Trx(5, "W1", "P1", "RECEIPT", 30),
     Trx(4, "W1", "P1", "ISSUE", 30), Trx(3, "W1", "P1", "RECEIPT", 30),
     Trx(2, "W1", "P1", "ISSUE", 30), Trx(1, "W1", "P1", "RECEIPT", 40) >>

\* getCriticalAlerts and the other read-only operations running while
\* autoAdjustSafetyStock runs: the steps of the two invocations interleave.
InitConcurrent ==
  /\ balances = << Balance("W1", "P1", 40, 10),
                   Balance("W2", "P1", 0, 10),
                   Balance("W1", "P2", 7, 100) >>
  /\ transactions = AlertLedger
  /\ products = InitialProducts
  /\ warehouses = InitialWarehouses
  /\ purchaseOrderItems = InitialPurchaseOrderItems
  /\ policy = DefaultPolicy
  /\ priceVarianceEnabled \in BOOLEAN
  /\ InitAdjust
  /\ InitOp
  /\ runsLeft = 1
  /\ opRunsLeft = 1
  /\ recIn = None
  /\ recOut = None
  /\ InitCall
  /\ InitJob

NextConcurrent ==
  \/ AdjustNext
  \/ OpNext

SpecConcurrent == InitConcurrent /\ [][NextConcurrent]_vars

(***************************************************************************)
(* Properties.                                                             *)
(***************************************************************************)
Finished == pc \in {"done", "failed"}

EventsOf(kind) == {i \in 1..Len(events) : events[i].kind = kind}

\* The entries of the invocations before the current one.
PriorRuns == IF Finished THEN SubSeq(runLog, 1, Len(runLog) - 1) ELSE runLog

\* The balances of the store that belong to a warehouse, in the store's order.
StoreBalancesOf(w) == SelectSeq(balances, LAMBDA b : b.warehouseId = w)

Key(b) == <<b.warehouseId, b.productId>>

-----------------------------------------------------------------------------
\* C1: when a safety-stock write fails, only that candidate is skipped: the
\* invocation does not fail, and it goes on to evaluate every remaining balance
\* of the warehouse.
C1_FailedWriteIsSkipped ==
  EventsOf("fail") # {} =>
    /\ pc # "failed"
    /\ (pc = "done" => idx = Len(Targets) + 1)

-----------------------------------------------------------------------------
\* The current invocation leaves the store alone: it sends no write and, if it
\* returns, reports appliedCount = 0.
NoWriteNoChange ==
  /\ events = <<>>
  /\ pc = "done" => result.appliedCount = 0

\* The invocation before the current one returned, and was for the same warehouse.
RightAfterCompletedRun ==
  /\ pc # "idle"
  /\ PriorRuns # <<>>
  /\ PriorRuns[Len(PriorRuns)].outcome = "done"
  /\ PriorRuns[Len(PriorRuns)].warehouseId = warehouseId

\* Some earlier invocation for the same warehouse returned.
AfterCompletedRun ==
  /\ pc # "idle"
  /\ \E i \in 1..Len(PriorRuns) :
       PriorRuns[i].outcome = "done" /\ PriorRuns[i].warehouseId = warehouseId

\* C2 as stated: a run that follows a completed run for the same warehouse, with
\* the same policy and unchanged transactions, writes nothing and reports
\* appliedCount = 0.
C2_SecondRunAppliesNothing == RightAfterCompletedRun => NoWriteNoChange

\* C2, amended: with the change cap disabled (maxChangePercent <= 0), every run
\* that follows a completed run for the same warehouse writes nothing and reports
\* appliedCount = 0.
C2_SecondRunAppliesNothingUncapped ==
  (policy.maxChangePercent <= 0 /\ AfterCompletedRun) => NoWriteNoChange

\* A second run has returned after a first run that did apply changes.
C2_Witness ==
  /\ policy.maxChangePercent <= 0
  /\ RightAfterCompletedRun
  /\ PriorRuns[Len(PriorRuns)].appliedCount > 0
  /\ pc = "done"

-----------------------------------------------------------------------------
Evaluated == recOut # None
R == recOut.recommended
C == recIn.current
Pol == recIn.policy

\* C3 as stated: under a cap p > 0, |R - C| <= p/100 * max(1, C), allowing one
\* unit for rounding, whatever roundToPack and minSafetyStock are.
C3_ChangeWithinCap ==
  (Evaluated /\ Pol.maxChangePercent > 0) =>
    100 * Abs(R - C) <= Pol.maxChangePercent * Max(1, C) + 100

\* C3, amended: under a cap p > 0 and with roundToPack unset,
\* |R - C| <= p/100 * max(1, C) + 1/2, whatever minSafetyStock is.
C3_ChangeWithinCapNoPack ==
  (Evaluated /\ Pol.maxChangePercent > 0 /\ Pol.roundToPack = 0) =>
    200 * Abs(R - C) <= 2 * Pol.maxChangePercent * Max(1, C) + 100

\* The cap has cut a recommendation down to the largest decrease it allows.
C3_Witness ==
  /\ Evaluated
  /\ Pol.maxChangePercent = 20 /\ Pol.roundToPack = 0
  /\ C = 100 /\ R = 80

-----------------------------------------------------------------------------
\* C4: every recommendation is at least minSafetyStock.
C4_AtLeastMinSafetyStock == Evaluated => R >= Pol.minSafetyStock

-----------------------------------------------------------------------------
AllZero(daily) == \A i \in 1..Len(daily) : daily[i] = 0

\* C5 as stated: for an all-zero series the recommendation is minSafetyStock,
\* whatever the current value.
C5_AllZeroGivesMin ==
  (Evaluated /\ AllZero(recIn.daily)) => R = Pol.minSafetyStock

\* C5, amended: for an all-zero series and with roundToPack unset, the
\* recommendation is minSafetyStock when the cap is disabled, and minSafetyStock
\* brought into [round(C(1 - p/100)), round(C(1 + p/100))] under a cap p > 0.
C5_AllZeroGivesCappedMin ==
  (Evaluated /\ AllZero(recIn.daily) /\ Pol.roundToPack = 0) =>
    LET p == Pol.maxChangePercent
        lower == (2 * C * (100 - p) + 100) \div 200
        upper == (2 * C * (100 + p) + 100) \div 200
    IN  IF p > 0
        THEN R = (IF Pol.minSafetyStock > upper THEN upper
                  ELSE IF Pol.minSafetyStock < lower THEN lower
                  ELSE Pol.minSafetyStock)
        ELSE R = Pol.minSafetyStock

\* An all-zero series evaluated with a positive minSafetyStock and no cap.
C5_Witness ==
  /\ Evaluated
  /\ AllZero(recIn.daily)
  /\ Pol.roundToPack = 0 /\ Pol.maxChangePercent = 0 /\ Pol.minSafetyStock = 5
  /\ C = 100 /\ R = 5

-----------------------------------------------------------------------------
IsSpike(daily) ==
  /\ Len(daily) = 30
  /\ \E d \in 1..30 : daily[d] = 100 /\ \A i \in (1..30) \ {d} : daily[i] = 0

\* C6 as stated: for 29 zeros and one day of 100 the recommendation with the
\* clamp is strictly smaller than without it, for the same policy and current.
C6_ClampGivesSmaller ==
  (Evaluated /\ IsSpike(recIn.daily)) => R < recOut.unclamped

\* C6, amended: for 29 zeros and one day of 100 the recommendation with the
\* clamp is never larger than without it; with the cap disabled and roundToPack
\* unset it is minSafetyStock, strictly smaller whenever the recommendation
\* without the clamp exceeds minSafetyStock (0 against 79 under the defaults).
C6_ClampGivesSmallerUncapped ==
  (Evaluated /\ IsSpike(recIn.daily)) =>
    /\ R <= recOut.unclamped
    /\ (Pol.maxChangePercent <= 0 /\ Pol.roundToPack = 0) =>
         /\ R = Pol.minSafetyStock
         /\ recOut.unclamped > Pol.minSafetyStock => R < recOut.unclamped
         /\ (Pol.serviceLevel = 950 /\ Pol.leadTimeDays = 7 /\ Pol.minSafetyStock = 0) =>
              (R = 0 /\ recOut.unclamped = 79)

\* The spike series evaluated under the default service level and lead time,
\* without cap: 0 with the clamp, 79 without.
C6_Witness ==
  /\ Evaluated
  /\ IsSpike(recIn.daily)
  /\ Pol.maxChangePercent = 0 /\ Pol.roundToPack = 0 /\ Pol.minSafetyStock = 0
  /\ Pol.serviceLevel = 950 /\ Pol.leadTimeDays = 7
  /\ R = 0 /\ recOut.unclamped = 79

-----------------------------------------------------------------------------
\* |x| >= |y| for two changePercent ratios.
AbsGeq(x, y) == Abs(x.num) * y.den >= Abs(y.num) * x.den

\* C7: a write is sent for a balance exactly when its recommendation differs
\* from its current safety stock; on return, changes holds one record per
\* written balance, each with recommended # current, appliedCount = |changes|
\* <= totalCandidates = the number of balances of the warehouse, and changes
\* is ordered by |changePercent|, largest first.
C7_WritesAndChanges ==
  /\ pc \in {"writing", "done"} =>
       \A t \in 1..Len(Targets) :
         (t < idx \/ (pc = "writing" /\ t = idx)) =>
           ((\E i \in EventsOf("issue") : events[i].at = t)
              <=> Recommended(Daily(transactions, Targets[t]),
                              Targets[t].safetyStock, policy)
                    # Targets[t].safetyStock)
  /\ pc = "done" =>
       LET chg == result.changes
       IN  /\ result.appliedCount = Len(chg)
           /\ result.appliedCount <= result.totalCandidates
           /\ result.totalCandidates = Len(StoreBalancesOf(warehouseId))
           /\ \A i \in 1..Len(chg) :
                chg[i].recommendedSafetyStock # chg[i].currentSafetyStock
           /\ \A i \in 1..Len(chg), j \in 1..Len(chg) :
                i < j => /\ AbsGeq(chg[i].changePercent, chg[j].changePercent)
                         /\ Key(chg[i]) # Key(chg[j])
           /\ {Key(chg[i]) : i \in 1..Len(chg)}
                = {Key(Targets[events[i].at]) : i \in EventsOf("ok")}
           /\ \A i \in 1..Len(chg) : \E k \in 1..Len(balances) :
                /\ Key(balances[k]) = Key(chg[i])
                /\ balances[k].safetyStock = chg[i].recommendedSafetyStock

\* A run has returned two change records, pushed in the other order.
C7_Witness ==
  /\ pc = "done"
  /\ result.appliedCount = 2
  /\ Key(result.changes[1]) = Key(changes[2])

-----------------------------------------------------------------------------
OnlySafetyStockDiffers(old, new) ==
  /\ DOMAIN new = DOMAIN old
  /\ \A f \in DOMAIN old : f # "safetyStock" => new[f] = old[f]

\* C8: the store changes only by autoAdjustSafetyStock patching the safetyStock
\* of balances of its warehouse: every other field, the balances of other
\* warehouses, the transactions, the products and the warehouses stay as they
\* are, and the read-only operations change nothing.
C8_OnlySafetyStockOfWarehouse ==
  [][ /\ transactions' = transactions
      /\ products' = products
      /\ warehouses' = warehouses
      /\ purchaseOrderItems' = purchaseOrderItems
      /\ Len(balances') = Len(balances)
      /\ \A k \in 1..Len(balances) :
           balances'[k] # balances[k] =>
             /\ pc = "writing"
             /\ opVars' = opVars
             /\ balances[k].warehouseId = warehouseId
             /\ OnlySafetyStockDiffers(balances[k], balances'[k]) ]_vars

\* A run has patched a balance and a read-only operation has returned.
C8_Witness ==
  /\ EventsOf("ok") # {}
  /\ \E k \in 1..Len(balances) : balances[k].safetyStock \notin {10, 100}
  /\ opPc = "done"

-----------------------------------------------------------------------------
AdjustReadFailed == \E r \in ReadNames : reads[r] = "failed"

\* A failed read of autoAdjustSafetyStock fails the invocation, with no result.
AdjustFailsOnReadFailure == AdjustReadFailed => (pc = "failed" /\ result = None)

\* C9 as stated: in every operation, the price-variance detector of
\* getCriticalAlerts included, a failed read fails the operation, which returns
\* nothing.
C9_ReadFailureIsFatal ==
  /\ AdjustFailsOnReadFailure
  /\ (\E r \in DOMAIN opReads : opReads[r] = "failed") =>
       (opPc = "failed" /\ opResult = None)

\* C9, amended: a failed read fails the operation, which returns nothing, except
\* for the reads of the price-variance detector inside getCriticalAlerts: when
\* one of those fails, getCriticalAlerts returns its alerts without the
\* price-variance anomalies.
C9_ReadFailureIsFatalButPrice ==
  /\ AdjustFailsOnReadFailure
  /\ \A r \in DOMAIN opReads :
       opReads[r] = "failed" =>
         IF r \in PriceReads
         THEN /\ opName = "getCriticalAlerts"
              /\ opPc = "done"
              /\ opResult = OpResponse("getCriticalAlerts", "skipped")
         ELSE opPc = "failed" /\ opResult = None

\* getCriticalAlerts has failed on one of the reads of its Promise.all.
C9_Witness ==
  /\ opName = "getCriticalAlerts"
  /\ opPc = "failed"
  /\ \E r \in AlertReads : opReads[r] = "failed"

-----------------------------------------------------------------------------
\* C10: the four reads are issued together and complete in any order; no write
\* is sent before all four have completed, and none if one fails; writes are
\* sent one at a time, each after the answer to the previous one, in the order
\* of the warehouse's balances.
C10_ReadsThenSequentialWrites ==
  /\ pc = "reading" => \A r \in ReadNames : reads[r] \in {"pending", "ok"}
  /\ (inflight # {} \/ EventsOf("issue") # {}) => \A r \in ReadNames : reads[r] = "ok"
  /\ AdjustReadFailed => (events = <<>> /\ inflight = {})
  /\ Cardinality(inflight) <= 1
  /\ inflight # {} <=> pc = "writing"
  /\ \A i \in 1..Len(events) :
       IF events[i].kind = "issue"
       THEN /\ i > 1 => events[i - 1].kind = "ok" /\ events[i - 1].at < events[i].at
            /\ events[i].at \in 1..Len(StoreBalancesOf(warehouseId))
            /\ Key(Targets[events[i].at]) = Key(StoreBalancesOf(warehouseId)[events[i].at])
       ELSE i > 1 /\ events[i - 1].kind = "issue" /\ events[i - 1].at = events[i].at

\* A second write is in flight, sent after the first was answered.
C10_Witness ==
  /\ pc = "writing"
  /\ Len(events) = 3
  /\ Cardinality(inflight) = 1
-----------------------------------------------------------------------------
AlertsReturned == opName = "getCriticalAlerts" /\ opPc = "done"

\* The balances that getCriticalAlerts read for the impact enrichment.
ImpactBalances == opFetched[<<"getCriticalAlerts", "balances">>]

\* C11: within one getCriticalAlerts invocation all parts work on the same
\* snapshot: the qtyOnHand and safetyStock a stockout alert was built from are
\* those the impact enrichment uses for the same product and warehouse, and
\* both detectors see the same transactions, also when a write-back of a
\* concurrent autoAdjustSafetyStock falls between the reads.
C11_SameSnapshot ==
  AlertsReturned =>
    /\ \A i \in 1..Len(opResult.value.alerts) :
         LET a == opResult.value.alerts[i]
             k == BalanceIndex(ImpactBalances, a)
         IN  (a.type = "stockout" /\ k # 0) =>
               /\ a.currentValue.num = ImpactBalances[k].qtyOnHand
               /\ a.baselineValue.num = ImpactBalances[k].safetyStock
    /\ opFetched[<<"detectUnusualTransactions", "transactions">>]
         = opFetched[<<"analyzeStockoutHistory", "transactions">>]

-----------------------------------------------------------------------------
StockoutEvaluated == callOut # None /\ callIn.fn = "analyzeStockoutHistory"

\* The balance of P1 in W1 and its transactions of the window, oldest first.
TheBalance == callIn.balances[2]
TheTrx == ProductTrx(callIn.transactions, TheBalance, callIn.days)

\* The quantity reconstructed after reversing the k latest transactions.
RECURSIVE QtyBack(_)
QtyBack(k) ==
  IF k = 0 THEN TheBalance.qtyOnHand
  ELSE QtyBack(k - 1) - TheTrx[Len(TheTrx) + 1 - k].signedQty

\* The date of the transaction reversed at step k.
DateBack(k) == TheTrx[Len(TheTrx) + 1 - k].trxDate

\* The item reported for the balance, if any.
TheItems ==
  {i \in 1..Len(callOut.items) :
     /\ callOut.items[i].productId = TheBalance.productId
     /\ callOut.items[i].warehouseId = TheBalance.warehouseId}
TheItem == callOut.items[CHOOSE i \in TheItems : TRUE]
ReportedFrequency == IF TheItems = {} THEN 0 ELSE TheItem.frequency

\* The steps at which the quantity is <= 0 while the previous one was > 0.
Transitions == {k \in 1..Len(TheTrx) : QtyBack(k) <= 0 /\ QtyBack(k - 1) > 0}

\* C12: the frequency reported for a balance is the number of in-stock ->
\* stockout transitions of the reconstructed sequence, whatever the starting
\* qtyOnHand (0 and negative values included).
C12_FrequencyCountsTransitions ==
  StockoutEvaluated => ReportedFrequency = Cardinality(Transitions)

-----------------------------------------------------------------------------
\* The steps at which the simulation counted a transition into stockout.
CountedSteps ==
  {k \in 1..Len(TheTrx) :
     /\ QtyBack(k) <= 0
     /\ IF k = 1 THEN TheBalance.qtyOnHand # 0 ELSE QtyBack(k - 1) > 0}

\* C13: lastStockout is the date of the latest-dated transaction at which a
\* transition into stockout was counted (dates are days before today: the
\* latest date is the smallest number).
C13_LastStockoutIsLatest ==
  (StockoutEvaluated /\ TheItems # {}) =>
    /\ \E k \in CountedSteps : TheItem.lastStockout = DateBack(k)
    /\ \A k \in CountedSteps : TheItem.lastStockout <= DateBack(k)

-----------------------------------------------------------------------------
\* C14: stockoutDays is the number of days of the window on which the
\* reconstructed quantity was <= 0, a day with several transactions counting
\* once.
C14_StockoutDaysCountsDays ==
  (StockoutEvaluated /\ TheItems # {}) =>
    TheItem.stockoutDays =
      Cardinality({DateBack(k) : k \in {j \in 1..Len(TheTrx) : QtyBack(j) <= 0}})

-----------------------------------------------------------------------------
DetectEvaluated == callOut # None /\ callIn.fn = "detectUnusualTransactions"
AlertsEvaluated == callOut # None /\ callIn.fn = "getCriticalAlerts"

\* The transactions of an anomaly's tuple in the two windows of the call.
TupleOf(a) == <<a.productId, a.warehouseId, a.trxType>>
RecentOf(a) == OfPair(RecentTrx(callIn.transactions, callIn.lookbackDays), TupleOf(a))
BaselineOf(a) == OfPair(BaselineTrx(callIn.transactions, callIn.lookbackDays), TupleOf(a))

\* Two transactions of the recent window carry the same reference.
SharesReference(rec) ==
  \E i \in 1..Len(rec) : \E j \in (i + 1)..Len(rec) :
    rec[i].refType = rec[j].refType /\ rec[i].refId = rec[j].refId

\* The cause the ordered rules give an anomaly.
FirstMatchingRule(a) ==
  LET rec == RecentOf(a)
      base == BaselineOf(a)
      positive == a.changePercentage.num > 0
      negative == a.changePercentage.num < 0
  IN  IF SharesReference(rec) THEN "duplicate_entry"
      ELSE IF Extreme(rec, a.currentValue.num, callIn.lookbackDays) THEN "data_error"
      ELSE IF a.trxType = "ISSUE" /\ positive THEN "demand_spike"
      ELSE IF a.trxType = "RECEIPT" /\ negative THEN "receipt_delay"
      ELSE IF ActiveDays(rec) >= 5 /\ ActiveDays(base) >= 5 THEN "process_change"
      ELSE "unknown"

\* The anomalies reported for the tuple (P1, W1, type) of the call.
AnomaliesOfTuple ==
  {i \in 1..Len(callOut.items) :
     TupleOf(callOut.items[i]) = <<"P1", "W1", callIn.trxType>>}

\* C15: the probable cause of every anomaly is the label of the first matching
\* rule in the order duplicate_entry, data_error, demand_spike, receipt_delay,
\* process_change, else unknown; an ISSUE tuple with recentAvg 30, baselineAvg
\* 10, no duplicate and no extreme day gives changePercentage 200, severity
\* high and cause demand_spike.
C15_FirstMatchingRuleWins ==
  DetectEvaluated =>
    /\ \A i \in 1..Len(callOut.items) :
         callOut.items[i].probableCause = FirstMatchingRule(callOut.items[i])
    /\ (callIn.recent = "even30" /\ callIn.baseline = "even10" /\ callIn.trxType = "ISSUE") =>
         /\ Cardinality(AnomaliesOfTuple) = 1
         /\ \A i \in AnomaliesOfTuple :
              /\ callOut.items[i].currentValue = [num |-> 30 * 7, den |-> 7]
              /\ callOut.items[i].baselineValue = [num |-> 10 * 7, den |-> 7]
              /\ callOut.items[i].changePercentage.num = 200 * callOut.items[i].changePercentage.den
              /\ callOut.items[i].severity = "high"
              /\ callOut.items[i].probableCause = "demand_spike"

\* The ISSUE tuple with recentAvg 30 and baselineAvg 10 has been evaluated and
\* reported as a demand spike.
C15_Witness ==
  /\ DetectEvaluated
  /\ callIn.recent = "even30" /\ callIn.baseline = "even10" /\ callIn.trxType = "ISSUE"
  /\ \E i \in AnomaliesOfTuple : callOut.items[i].probableCause = "demand_spike"

-----------------------------------------------------------------------------
\* Some single day's recent quantity exceeds 5 times the recent daily average.
DayAboveFiveTimesAverage(a) ==
  LET rec == RecentOf(a)
  IN  \E d \in DaysOf(rec) : DailyQty(rec, d) * callIn.lookbackDays > 5 * a.currentValue.num

\* C16: for an anomaly without duplicate reference, the cause is data_error
\* exactly when a single day's recent quantity exceeds 5 times the recent
\* daily average, also when that average is below 1.
C16_DataErrorIffFiveTimesAverage ==
  DetectEvaluated =>
    \A i \in 1..Len(callOut.items) :
      ~SharesReference(RecentOf(callOut.items[i])) =>
        (callOut.items[i].probableCause = "data_error"
           <=> DayAboveFiveTimesAverage(callOut.items[i]))

-----------------------------------------------------------------------------
\* The severity band of a change.
BandOf(change) ==
  IF Abs(change.num) >= 300 * change.den THEN "critical"
  ELSE IF Abs(change.num) >= 200 * change.den THEN "high"
  ELSE "medium"

\* C17: with thresholdPercentage = 150 every anomaly comes from a tuple with a
\* non-zero baseline average, has |changePercentage| >= 150 and severity
\* critical (>= 300), high (>= 200) or medium, never low; summary.low of
\* getCriticalAlerts is 0.
C17_NoLowSeverity ==
  /\ (DetectEvaluated /\ callIn.thresholdPercentage = 150) =>
       \A i \in 1..Len(callOut.items) :
         LET a == callOut.items[i]
         IN  /\ a.baselineValue.num # 0
             /\ WindowSum(BaselineOf(a), TupleOf(a)) # 0
             /\ Abs(a.changePercentage.num) >= 150 * a.changePercentage.den
             /\ a.severity = BandOf(a.changePercentage)
             /\ a.severity # "low"
  /\ AlertsEvaluated =>
       /\ callOut.summary.low = 0
       /\ \A i \in 1..Len(callOut.alerts) : callOut.alerts[i].severity # "low"

\* getCriticalAlerts has merged a medium unusual-transaction anomaly, a
\* stockout alert and a price-variance anomaly.
C17_Witness ==
  /\ AlertsEvaluated
  /\ \E i \in 1..Len(callOut.alerts) :
       callOut.alerts[i].type = "unusual_transaction" /\ callOut.alerts[i].severity = "medium"
  /\ \E i \in 1..Len(callOut.alerts) : callOut.alerts[i].type = "stockout"
  /\ \E i \in 1..Len(callOut.alerts) : callOut.alerts[i].type = "price_variance"

-----------------------------------------------------------------------------
PerformanceEvaluated == callOut # None /\ callIn.fn = "getProductPerformance"

Listed == 1..Len(callOut.products)

HighTurnover(k) == RatAtLeast(callOut.products[k].turnoverRate, callOut.summary.medianTurnover)
HighRevenue(k) == callOut.products[k].revenuePotential >= callOut.summary.medianRevenue

\* The number of listed products of a category.
Listing(cat) == Cardinality({k \in Listed : callOut.products[k].performanceCategory = cat})

\* C18: every listed product has exactly one of the four categories, given by
\* (turnover >= median, revenue >= median) -> Star, (<, >=) -> Cash Cow,
\* (>=, <) -> Question Mark, (<, <) -> Dog, and the four counts of the summary
\* add up to the length of the list.
C18_QuadrantsPartition ==
  PerformanceEvaluated =>
    /\ \A k \in Listed :
         callOut.products[k].performanceCategory =
           (CASE HighTurnover(k) /\ HighRevenue(k) -> "Star"
              [] ~HighTurnover(k) /\ HighRevenue(k) -> "Cash Cow"
              [] HighTurnover(k) /\ ~HighRevenue(k) -> "Question Mark"
              [] ~HighTurnover(k) /\ ~HighRevenue(k) -> "Dog")
    /\ callOut.summary.stars = Listing("Star")
    /\ callOut.summary.cashCows = Listing("Cash Cow")
    /\ callOut.summary.questionMarks = Listing("Question Mark")
    /\ callOut.summary.dogs = Listing("Dog")
    /\ callOut.summary.stars + callOut.summary.cashCows
         + callOut.summary.questionMarks + callOut.summary.dogs = Len(callOut.products)

\* An evaluation in which each of the four categories has a product.
C18_Witness ==
  /\ PerformanceEvaluated
  /\ callOut.summary.stars > 0 /\ callOut.summary.cashCows > 0
  /\ callOut.summary.questionMarks > 0 /\ callOut.summary.dogs > 0

-----------------------------------------------------------------------------
\* v is the element at index floor(n/2), counted from 0, of the values
\* val[1..n] sorted in ascending order: at most floor(n/2) values are below
\* it and more than floor(n/2) are not above it.
IsUpperMedianInt(v, val, n) ==
  /\ \E k \in 1..n : val[k] = v
  /\ Cardinality({k \in 1..n : val[k] < v}) <= n \div 2
  /\ Cardinality({k \in 1..n : val[k] <= v}) > n \div 2

IsUpperMedianRat(v, val, n) ==
  /\ \E k \in 1..n : val[k] = v
  /\ Cardinality({k \in 1..n : RatLess(val[k], v)}) <= n \div 2
  /\ Cardinality({k \in 1..n : ~RatLess(v, val[k])}) > n \div 2

\* The turnover rates of the listed products are the whole numbers of the set.
TurnoverRatesAre(set) ==
  /\ \A k \in Listed : \E r \in set :
       callOut.products[k].turnoverRate.num = r * callOut.products[k].turnoverRate.den
  /\ \A r \in set : \E k \in Listed :
       callOut.products[k].turnoverRate.num = r * callOut.products[k].turnoverRate.den

\* C19: for a non-empty evaluated set of n products the medians are the
\* elements at index floor(n/2) of the sorted turnover rates and revenue
\* potentials (3 for the four rates 1, 2, 3, 4), not the average of the two
\* middle elements; for an empty set both are 0.
C19_MedianIsUpperMiddle ==
  PerformanceEvaluated =>
    LET n == Len(callOut.products) IN
    /\ n > 0 =>
         /\ IsUpperMedianRat(callOut.summary.medianTurnover,
                             [k \in Listed |-> callOut.products[k].turnoverRate], n)
         /\ IsUpperMedianInt(callOut.summary.medianRevenue,
                             [k \in Listed |-> callOut.products[k].revenuePotential], n)
    /\ (n = 4 /\ TurnoverRatesAre({1, 2, 3, 4})) =>
         callOut.summary.medianTurnover.num = 3 * callOut.summary.medianTurnover.den
    /\ n = 0 =>
         /\ callOut.summary.medianTurnover.num = 0
         /\ callOut.summary.medianRevenue = 0

\* Four products with the turnover rates 1, 2, 3, 4 have been evaluated.
C19_Witness ==
  /\ PerformanceEvaluated
  /\ Len(callOut.products) = 4
  /\ TurnoverRatesAre({1, 2, 3, 4})
  /\ callOut.summary.medianTurnover.num = 3 * callOut.summary.medianTurnover.den

-----------------------------------------------------------------------------
\* The product of the input that an entry of the list stands for.
SourceOf(k) ==
  callIn.products[CHOOSE i \in 1..Len(callIn.products) :
                    callIn.products[i].productId = callOut.products[k].productId]

\* The balances of a product that pass the warehouse filter.
MatchingBalances(productId) ==
  {i \in 1..Len(callIn.balances) :
     /\ callIn.balances[i].productId = productId
     /\ (callIn.warehouseId = "" \/ callIn.balances[i].warehouseId = callIn.warehouseId)}

RECURSIVE OnHandOver(_)
OnHandOver(set) ==
  IF set = {} THEN 0
  ELSE LET i == CHOOSE x \in set : TRUE
       IN  callIn.balances[i].qtyOnHand + OnHandOver(set \ {i})

\* C20: only products that are active, match the category filter, have a
\* balance under the warehouse filter and a non-zero average on-hand quantity
\* are listed, counted and used for the medians; an inactive product never
\* appears.
C20_OnlyActiveProducts ==
  PerformanceEvaluated =>
    \A k \in Listed :
      /\ SourceOf(k).isActive
      /\ (callIn.categoryFilter = "" \/ SourceOf(k).category = callIn.categoryFilter)
      /\ MatchingBalances(SourceOf(k).productId) # {}
      /\ OnHandOver(MatchingBalances(SourceOf(k).productId)) # 0

-----------------------------------------------------------------------------
\* The alerts getCriticalAlerts returned and the balance of an alert's key.
TheAlerts == callOut.alerts
Has(a, field) == field \in a.estimatedImpact.has
BalancesOfAlert(a) ==
  {i \in 1..Len(callIn.balances) : /\ callIn.balances[i].productId = a.productId
                                   /\ callIn.balances[i].warehouseId = a.warehouseId}

\* floor(x / (num/den)) = d, for num > 0.
FloorOfQuotientIs(x, rate, d) ==
  /\ d * rate.num <= x * rate.den
  /\ x * rate.den < (d + 1) * rate.num

\* C21: stockRiskDays is set on an alert only if it is an ISSUE-type unusual
\* transaction with positive change whose balance has currentQty > safetyStock
\* and whose recent daily rate is > 0, and it then equals
\* floor((currentQty - safetyStock) / recentDailyRate); potentialLostSalesQty
\* is set only when that stockRiskDays is at most 7.
C21_StockRiskDaysOnlyAboveSafety ==
  AlertsEvaluated =>
    \A i \in 1..Len(TheAlerts) :
      LET a == TheAlerts[i]
      IN  /\ Has(a, "stockRiskDays") =>
               /\ a.type = "unusual_transaction"
               /\ a.trxType = "ISSUE"
               /\ a.changePercentage.num > 0
               /\ a.currentValue.num > 0
               /\ \E k \in BalancesOfAlert(a) :
                    /\ callIn.balances[k].qtyOnHand > callIn.balances[k].safetyStock
                    /\ FloorOfQuotientIs(callIn.balances[k].qtyOnHand
                                           - callIn.balances[k].safetyStock,
                                         a.currentValue,
                                         a.estimatedImpact.stockRiskDays)
          /\ Has(a, "potentialLostSalesQty") =>
               /\ Has(a, "stockRiskDays")
               /\ a.estimatedImpact.stockRiskDays <= 7

-----------------------------------------------------------------------------
ThePriorities == callOut.summary.todayPriorities

\* The score the priorities are ranked by.
PriorityScore(a) ==
  (CASE a.severity = "critical" -> 3
     [] a.severity = "high" -> 2
     [] a.severity = "medium" -> 1
     [] a.severity = "low" -> 0)
    + (IF a.probableCause \in {"duplicate_entry", "data_error"} THEN 1 ELSE 0)
    + (IF Has(a, "stockRiskDays") /\ a.estimatedImpact.stockRiskDays <= 7 THEN 1 ELSE 0)
    + (IF a.type = "stockout" THEN 1 ELSE 0)

\* Alert i comes before alert j: higher score, or equal score and earlier in
\* the merged list.
Outranks(i, j) ==
  \/ PriorityScore(TheAlerts[i]) > PriorityScore(TheAlerts[j])
  \/ PriorityScore(TheAlerts[i]) = PriorityScore(TheAlerts[j]) /\ i < j

\* f lists the positions of the min(3, N) first alerts, in order.
IsRanking(f) ==
  /\ \A j, k \in DOMAIN f : j < k => Outranks(f[j], f[k])
  /\ \A k \in DOMAIN f : \A i \in 1..Len(TheAlerts) :
       (\A j \in DOMAIN f : f[j] # i) => Outranks(f[k], i)

Ranking ==
  CHOOSE f \in [1..Min(3, Len(TheAlerts)) -> 1..Len(TheAlerts)] : IsRanking(f)

Ranked(k) == TheAlerts[Ranking[k]]

\* C22: every entry of todayPriorities has confidence low if the alert's
\* baselineValue is 0; otherwise high if its probableCause is known and its
\* severity is critical or high; otherwise medium.
C22_ConfidenceRule ==
  AlertsEvaluated =>
    /\ Len(ThePriorities) = Min(3, Len(TheAlerts))
    /\ \A k \in 1..Len(ThePriorities) :
         LET a == Ranked(k)
         IN  ThePriorities[k].confidence =
               IF a.baselineValue.num = 0 THEN "low"
               ELSE IF /\ a.probableCause \notin {"none", "unknown"}
                       /\ a.severity \in {"critical", "high"}
                    THEN "high"
               ELSE "medium"

\* One list of priorities with a low, a high and a medium confidence.
C22_Witness ==
  /\ AlertsEvaluated
  /\ \A c \in {"low", "medium", "high"} :
       \E k \in 1..Len(ThePriorities) : ThePriorities[k].confidence = c
  /\ \E k \in 1..Len(ThePriorities) :
       Ranked(k).baselineValue.num = 0 /\ ThePriorities[k].confidence = "low"

TypeRank(a) ==
  CASE a.type = "unusual_transaction" -> 1
    [] a.type = "stockout" -> 2
    [] a.type = "price_variance" -> 3

\* C23: todayPriorities holds the min(3, N) highest-scoring of the N merged
\* alerts (score = severity base + 1 for duplicate_entry or data_error + 1 for
\* stockRiskDays <= 7 + 1 for a stockout), in descending score order, alerts
\* of equal score in the order of the merged list, which is unusual
\* transactions, then stockouts, then price variances.
C23_TopThreeByScore ==
  AlertsEvaluated =>
    /\ \A i, j \in 1..Len(TheAlerts) : i < j => TypeRank(TheAlerts[i]) <= TypeRank(TheAlerts[j])
    /\ Len(ThePriorities) = Min(3, Len(TheAlerts))
    /\ \A k \in 1..Len(ThePriorities) :
         /\ ThePriorities[k].productId = Ranked(k).productId
         /\ ThePriorities[k].warehouseId = Ranked(k).warehouseId
         /\ ThePriorities[k].severity = Ranked(k).severity
         /\ ThePriorities[k].rationale.probableCause = Ranked(k).probableCause
         /\ ThePriorities[k].title[1] =
              (CASE Ranked(k).type = "stockout" -> "Stockout berulang"
                 [] Ranked(k).type = "price_variance" -> "Perubahan biaya"
                 [] Ranked(k).type = "unusual_transaction" -> "Anomali " \o Ranked(k).trxType)

\* More than three alerts, one left out, a tie kept in merged order, and a
\* later alert ranked before an earlier one.
C23_Witness ==
  /\ AlertsEvaluated
  /\ Len(TheAlerts) > 3
  /\ Len(ThePriorities) = 3
  /\ \E j, k \in 1..3 :
       /\ j < k
       /\ PriorityScore(Ranked(j)) = PriorityScore(Ranked(k))
  /\ \E j, k \in 1..3 : j < k /\ Ranking[j] > Ranking[k]
  /\ \E k \in 1..3 : Ranked(k).type = "stockout"

-----------------------------------------------------------------------------
\* The request carries the configured secret, in its header or its token.
Supplies(req) == req.header = req.secret \/ req.token = req.secret

\* The handler called the daily job.
JobCalled == jobPc # "idle"

\* Nothing of autoAdjustSafetyStock has run: no invocation, no write.
NothingAdjusted == pc = "idle" /\ runLog = <<>> /\ inflight = {} /\ events = <<>>

\* C24: when CRON_SECRET is configured, the cron handler runs the daily job
\* (and so performs any safety-stock write) only for a GET request that
\* supplies exactly that secret; a request that does not supply it is answered
\* 401 without running the job, and a non-GET request never runs the job: it is
\* answered 405 once it has passed the secret check, which comes first.
C24_CronSecretGuardsJob ==
  (request # None /\ request.secret # "") =>
    /\ JobCalled => (Supplies(request) /\ request.method = "GET")
    /\ ~JobCalled => NothingAdjusted
    /\ (response # None /\ ~Supplies(request)) =>
         (response.status = 401 /\ ~JobCalled)
    /\ (response # None /\ request.method # "GET") =>
         /\ ~JobCalled
         /\ response.status = IF Provided(request) = request.secret THEN 405 ELSE 401

\* A request with the secret ran the job to its end and a write was persisted.
C24_Witness ==
  /\ request # None
  /\ request.secret # ""
  /\ response # None
  /\ response.status = 200
  /\ \E k \in 1..Len(runLog) : runLog[k].persisted > 0

\* The warehouses the job is to adjust, in the order of the store.
ExpectedWarehouses ==
  SelectSeq(warehouses,
            LAMBDA w : w.isActive /\ (jobOptions.given => w.warehouseId \in jobOptions.ids))

IsActiveWarehouse(w) ==
  \E k \in 1..Len(warehouses) : warehouses[k].warehouseId = w /\ warehouses[k].isActive

\* C25: the daily job invokes autoAdjustSafetyStock exactly once, one after
\* the other, for every active warehouse (of options.warehouses when given)
\* and never for an inactive one; a failed adjustment does not stop the
\* adjustments after it, and the job still returns a report.
C25_EveryActiveWarehouseOnce ==
  /\ jobPc # "off" =>
       /\ \A k \in 1..Len(runLog) : IsActiveWarehouse(runLog[k].warehouseId)
       /\ pc \in {"reading", "writing"} => IsActiveWarehouse(warehouseId)
       /\ Len(runLog) <= Len(ExpectedWarehouses)
  /\ jobPc = "done" =>
       /\ report # None
       /\ Len(runLog) = Len(ExpectedWarehouses)
       /\ \A k \in 1..Len(runLog) :
            runLog[k].warehouseId = ExpectedWarehouses[k].warehouseId

\* The adjustment of the first warehouse failed, the second was adjusted and
\* the report was returned.
C25_Witness ==
  /\ jobPc = "done"
  /\ report # None
  /\ Len(runLog) = 2
  /\ runLog[1].outcome = "failed"
  /\ runLog[2].outcome = "done"
  /\ runLog[2].persisted > 0

RECURSIVE PersistedTo(_)
PersistedTo(n) == IF n = 0 THEN 0 ELSE PersistedTo(n - 1) + runLog[n].persisted

\* C27: in the report of the daily job, safetyStock.totalApplied is the number
\* of safety-stock writes persisted to the store during the job, also when a
\* write fails part-way through a warehouse.
C27_TotalAppliedCountsPersisted ==
  jobPc = "done" => report.safetyStock.totalApplied = PersistedTo(Len(runLog))

-----------------------------------------------------------------------------
\* The locals of the simulation after its k-th step (k = 0: before the first).
MachineAfter(k) == Simulate(TheTrx, Len(TheTrx) + 1 - k, TheBalance)

\* C26: during the backward replay, after every processed transaction the
\* machine is in stockout if and only if the reconstructed running quantity
\* is <= 0, and its state changes only on a crossing: a quantity <= 0 reached
\* in state in-stock enters stockout, a quantity > 0 reached in state stockout
\* leaves it.
C26_StateFollowsQuantity ==
  StockoutEvaluated =>
    \A k \in 1..Len(TheTrx) :
      /\ MachineAfter(k).runningQty = QtyBack(k)
      /\ MachineAfter(k).inStockout <=> QtyBack(k) <= 0
      /\ MachineAfter(k).inStockout # MachineAfter(k - 1).inStockout =>
           \/ QtyBack(k) <= 0 /\ ~MachineAfter(k - 1).inStockout
           \/ QtyBack(k) > 0 /\ MachineAfter(k - 1).inStockout

\* A replay that enters stockout, leaves it and enters it again.
C26_Witness ==
  /\ StockoutEvaluated
  /\ Len(TheTrx) = 3
  /\ MachineAfter(1).inStockout
  /\ ~MachineAfter(2).inStockout
  /\ MachineAfter(3).inStockout
  /\ TheItems # {}
  /\ TheItem.frequency = 2

-----------------------------------------------------------------------------
\* The latest finished invocation returned and applied nothing.
LastRunAppliedNothing ==
  /\ runLog # <<>>
  /\ runLog[Len(runLog)].outcome = "done"
  /\ runLog[Len(runLog)].appliedCount = 0

\* C28: with transactions unchanged, a fixed policy and no other writer,
\* repeated invocations of autoAdjustSafetyStock for a warehouse reach a run
\* with appliedCount = 0 and from then on every run has appliedCount = 0, for
\* every initial value, cap and pack size.
C28_ReachesFixedPoint == <>[]LastRunAppliedNothing

\* Two runs applied changes (the second run was not yet at the fixed point)
\* under a cap and a pack size, and the two latest runs applied nothing.
C28_Witness ==
  /\ policy.maxChangePercent > 0
  /\ policy.roundToPack > 0
  /\ Len(runLog) >= 4
  /\ runLog[1].appliedCount > 0
  /\ runLog[2].appliedCount > 0
  /\ runLog[Len(runLog) - 1].appliedCount = 0
  /\ LastRunAppliedNothing

-----------------------------------------------------------------------------
\* No transaction of the call carries a negative quantity.
QuantitiesNonNegative ==
  \A i \in 1..Len(callIn.transactions) : callIn.transactions[i].qty >= 0

\* changePercentage > 0
IsIncrease(a) == a.changePercentage.num * a.changePercentage.den > 0

\* C29: with non-negative transaction quantities and thresholdPercentage above
\* 100, every anomaly detectUnusualTransactions emits has changePercentage > 0,
\* none has probableCause receipt_delay, and process_change is given to RECEIPT
\* tuples only.
C29_HighThresholdOnlyIncreases ==
  (DetectEvaluated /\ QuantitiesNonNegative /\ callIn.thresholdPercentage > 100) =>
    \A i \in 1..Len(callOut.items) :
      /\ IsIncrease(callOut.items[i])
      /\ callOut.items[i].probableCause # "receipt_delay"
      /\ callOut.items[i].probableCause = "process_change" =>
           callOut.items[i].trxType = "RECEIPT"

\* A call with the default threshold has reported a RECEIPT tuple as a process
\* change.
C29_Witness ==
  /\ DetectEvaluated /\ QuantitiesNonNegative
  /\ callIn.thresholdPercentage = DefaultThresholdPercentage
  /\ \E i \in 1..Len(callOut.items) :
       /\ callOut.items[i].probableCause = "process_change"
       /\ callOut.items[i].trxType = "RECEIPT"
       /\ IsIncrease(callOut.items[i])

-----------------------------------------------------------------------------
\* The cap is enabled, no pack size is set and the current safetyStock is 0.
CappedFromZero ==
  /\ Pol.maxChangePercent > 0
  /\ Pol.roundToPack = 0
  /\ Pol.minSafetyStock >= 0
  /\ C = 0

\* C30: with maxChangePercent > 0 and roundToPack unset, the recommendation for
\* a balance whose current safetyStock is 0 is 0, whatever its issue history
\* and minSafetyStock are, so the comparison with current finds no change to
\* write.
C30_ZeroStaysZero ==
  (Evaluated /\ CappedFromZero) => (R = 0 /\ R = C)

\* A balance at 0 with issues on several days and a minSafetyStock of 90 has
\* been evaluated under a cap.
C30_Witness ==
  /\ Evaluated /\ CappedFromZero
  /\ Pol.minSafetyStock = 90
  /\ ~AllZero(recIn.daily)
  /\ R = 0

=============================================================================
